---- MODULE Spec2Model ----
(***************************************************************************)
(* Model of the book-recommendation backend:                               *)
(*   - GeminiService.validate_and_normalize_filters (vocabulary normalizer) *)
(*   - GeminiService.generate_recommendations and its /books router        *)
(*   - the query cache of the /recommendations/quick endpoint              *)
(* Python strings are modelled as sequences of one-character strings so    *)
(* that lower(), replace() and substring tests are computed, not assumed.  *)
(***************************************************************************)
EXTENDS Integers, Sequences, FiniteSets, TLC

VARIABLES
    npc,          \* normalizer harness: "in" | "out" | "again"
    filter_data,    \* the dict handed to validate_and_normalize_filters
    normalized,   \* its result
    renormalized  \* the result of normalizing the result once more

nvars == <<npc, filter_data, normalized, renormalized>>

-----------------------------------------------------------------------------
(* Strings *)

UpperChars == <<"A","B","C","D","E","F","G","H","I","J","K","L","M",
                "N","O","P","Q","R","S","T","U","V","W","X","Y","Z">>
LowerChars == <<"a","b","c","d","e","f","g","h","i","j","k","l","m",
                "n","o","p","q","r","s","t","u","v","w","x","y","z">>

\* c.lower() and c.upper() for the letters; other characters map to themselves
ToLower == [c \in {UpperChars[i] : i \in 1..26} |->
               LowerChars[CHOOSE i \in 1..26 : UpperChars[i] = c]]
ToUpper == [c \in {LowerChars[i] : i \in 1..26} |->
               UpperChars[CHOOSE i \in 1..26 : LowerChars[i] = c]]

IsUpper(c) == c \in DOMAIN ToLower
IsLower(c) == c \in DOMAIN ToUpper

\* str.lower() on one character
LowerChar(c) == IF IsUpper(c) THEN ToLower[c] ELSE c

UpperChar(c) == IF IsLower(c) THEN ToUpper[c] ELSE c

\* str.lower()
Lower(s) == [i \in 1..Len(s) |-> LowerChar(s[i])]

\* str.upper()
Upper(s) == [i \in 1..Len(s) |-> UpperChar(s[i])]

\* str.replace(a, b) for one-character a and b
Replace(s, a, b) == [i \in 1..Len(s) |-> IF s[i] = a THEN b ELSE s[i]]

\* Python's  sub in s  on strings
Contains(s, sub) ==
    \E i \in 0..(Len(s) - Len(sub)) :
        \A j \in 1..Len(sub) : s[i + j] = sub[j]

-----------------------------------------------------------------------------
(* JSON / dict values of a classification field.  A key may be absent, null, *)
(* a string, or a non-string scalar such as a number.                        *)

Str(s) == [kind |-> "str", s |-> s]
Absent == [kind |-> "absent", s |-> <<>>]
Null   == [kind |-> "null", s |-> <<>>]
Num    == [kind |-> "num", s |-> <<>>]
\* an AttributeError escaping the function
Raised == [kind |-> "raise", s |-> <<>>]

\* dict.get(key, default)
Get(raw, default) == IF raw.kind = "absent" THEN Str(default) ELSE raw

\* Python truthiness of a field value
Truthy(raw) == raw.kind = "num" \/ (raw.kind = "str" /\ raw.s # <<>>)

\* value in <set of str>
InVocab(raw, vocab) == raw.kind = "str" /\ raw.s \in vocab

-----------------------------------------------------------------------------
(* The closed vocabularies and defaults of validate_and_normalize_filters *)

valid_languages == {
    <<"E","n","g","l","i","s","h">>, <<"S","p","a","n","i","s","h">>, <<"F","r","e","n","c","h">>, <<"G","e","r","m","a","n">>, <<"I","t","a","l","i","a","n">>,
    <<"P","o","r","t","u","g","u","e","s","e">>, <<"R","u","s","s","i","a","n">>, <<"J","a","p","a","n","e","s","e">>, <<"C","h","i","n","e","s","e">>, <<"K","o","r","e","a","n">>,
    <<"A","r","a","b","i","c">>, <<"H","i","n","d","i">>, <<"B","e","n","g","a","l","i">>, <<"T","a","m","i","l">>, <<"T","e","l","u","g","u">>,
    <<"M","a","r","a","t","h","i">>, <<"G","u","j","a","r","a","t","i">>, <<"U","r","d","u">>, <<"P","u","n","j","a","b","i">>, <<"S","a","n","s","k","r","i","t">> }

valid_audiences == { <<"c","h","i","l","d","r","e","n">>, <<"y","o","u","n","g","_","a","d","u","l","t">>, <<"a","d","u","l","t">>, <<"g","e","n","e","r","a","l">> }

valid_book_types == { <<"f","i","c","t","i","o","n">>, <<"n","o","n","_","f","i","c","t","i","o","n">>, <<"b","i","o","g","r","a","p","h","y">>, <<"m","e","m","o","i","r">>,
                      <<"t","e","x","t","b","o","o","k">>, <<"r","e","f","e","r","e","n","c","e">> }

valid_content_types == { <<"n","o","v","e","l">>, <<"s","h","o","r","t","_","s","t","o","r","i","e","s">>, <<"p","o","e","t","r","y">>, <<"e","s","s","a","y","s">>,
                         <<"a","c","a","d","e","m","i","c">>, <<"s","e","l","f","_","h","e","l","p">> }

valid_reading_levels == { <<"b","e","g","i","n","n","e","r">>, <<"i","n","t","e","r","m","e","d","i","a","t","e">>, <<"a","d","v","a","n","c","e","d">>, <<"e","x","p","e","r","t">> }

Fields == {"language", "target_audience", "book_type", "content_type", "reading_level"}

Vocabulary(f) ==
    CASE f = "language"        -> valid_languages
      [] f = "target_audience" -> valid_audiences
      [] f = "book_type"       -> valid_book_types
      [] f = "content_type"    -> valid_content_types
      [] f = "reading_level"   -> valid_reading_levels

DefaultOf(f) ==
    CASE f = "language"        -> <<"E","n","g","l","i","s","h">>
      [] f = "target_audience" -> <<"g","e","n","e","r","a","l">>
      [] f = "book_type"       -> <<"f","i","c","t","i","o","n">>
      [] f = "content_type"    -> <<"n","o","v","e","l">>
      [] f = "reading_level"   -> <<"i","n","t","e","r","m","e","d","i","a","t","e">>

-----------------------------------------------------------------------------
(* validate_and_normalize_filters, field by field.  Each operator returns   *)
(* Str(v), or Raised when .lower() is called on a non-string.               *)

\* the for/else loop: the vocabulary value that matched, else the default
ForElse(matching, default) ==
    IF matching # {} THEN Str(CHOOSE v \in matching : TRUE) ELSE Str(default)

\* x.lower() if x else ''
LowerOrEmpty(raw) == IF Truthy(raw) THEN Lower(raw.s) ELSE <<>>

NormLanguage(raw) ==
    LET language == Get(raw, <<"E","n","g","l","i","s","h">>)
    IN  IF InVocab(language, valid_languages) THEN language
        ELSE IF language.kind = "num" THEN Raised
        ELSE LET language_lower == LowerOrEmpty(language)
                 Match(valid_lang) == Lower(valid_lang) = language_lower
             IN  ForElse({v \in valid_languages : Match(v)},
                         <<"E","n","g","l","i","s","h">>)

\* NormTargetAudience with another member of the vocabulary as the default
NormTargetAudience_adult(raw) ==
    LET target_audience == Get(raw, <<"a","d","u","l","t">>)
    IN  IF InVocab(target_audience, valid_audiences) THEN target_audience
        ELSE IF target_audience.kind = "num" THEN Raised
        ELSE LET target_audience_lower == LowerOrEmpty(target_audience)
                 Match(valid_audience) == valid_audience = target_audience_lower
             IN  ForElse({v \in valid_audiences : Match(v)},
                         <<"a","d","u","l","t">>)

NormTargetAudience(raw) ==
    LET target_audience == Get(raw, <<"g","e","n","e","r","a","l">>)
    IN  IF InVocab(target_audience, valid_audiences) THEN target_audience
        ELSE IF target_audience.kind = "num" THEN Raised
        ELSE LET target_audience_lower == LowerOrEmpty(target_audience)
                 Match(valid_audience) == valid_audience = target_audience_lower
             IN  ForElse({v \in valid_audiences : Match(v)},
                         <<"g","e","n","e","r","a","l">>)

\* NormBookType without the guard  if book_type not in valid_book_types
NormBookType_unguarded(raw) ==
    LET book_type == Get(raw, <<"f","i","c","t","i","o","n">>)
    IN  IF book_type.kind = "num" THEN Raised
        ELSE LET book_type_lower == LowerOrEmpty(book_type)
                 Match(valid_type) ==
                     \/ Replace(valid_type, "_", "-") = book_type_lower
                     \/ valid_type = book_type_lower
             IN  IF \/ Contains(book_type_lower, <<"n","o","n","-","f","i","c","t","i","o","n">>)
                    \/ Contains(book_type_lower, <<"n","o","n","f","i","c","t","i","o","n">>)
                 THEN Str(<<"n","o","n","_","f","i","c","t","i","o","n">>)
                 ELSE IF Contains(book_type_lower, <<"f","i","c","t","i","o","n">>)
                 THEN Str(<<"f","i","c","t","i","o","n">>)
                 ELSE ForElse({v \in valid_book_types : Match(v)},
                         <<"f","i","c","t","i","o","n">>)

NormBookType(raw) ==
    LET book_type == Get(raw, <<"f","i","c","t","i","o","n">>)
    IN  IF InVocab(book_type, valid_book_types) THEN book_type
        ELSE IF book_type.kind = "num" THEN Raised
        ELSE LET book_type_lower == LowerOrEmpty(book_type)
                 Match(valid_type) ==
                     \/ Replace(valid_type, "_", "-") = book_type_lower
                     \/ valid_type = book_type_lower
             IN  IF \/ Contains(book_type_lower, <<"n","o","n","-","f","i","c","t","i","o","n">>)
                    \/ Contains(book_type_lower, <<"n","o","n","f","i","c","t","i","o","n">>)
                 THEN Str(<<"n","o","n","_","f","i","c","t","i","o","n">>)
                 ELSE IF Contains(book_type_lower, <<"f","i","c","t","i","o","n">>)
                 THEN Str(<<"f","i","c","t","i","o","n">>)
                 ELSE ForElse({v \in valid_book_types : Match(v)},
                         <<"f","i","c","t","i","o","n">>)

\* NormContentType without the else branch of the for loop
NormContentType_passthrough(raw) ==
    LET content_type == Get(raw, <<"n","o","v","e","l">>)
    IN  IF InVocab(content_type, valid_content_types) THEN content_type
        ELSE IF content_type.kind = "num" THEN Raised
        ELSE LET content_type_lower == LowerOrEmpty(content_type)
                 Match(valid_content) ==
                     \/ Replace(valid_content, "_", " ") = content_type_lower
                     \/ valid_content = content_type_lower
             IN  IF \E v \in valid_content_types : Match(v)
                 THEN ForElse({v \in valid_content_types : Match(v)},
                         <<"n","o","v","e","l">>)
                 ELSE content_type

NormContentType(raw) ==
    LET content_type == Get(raw, <<"n","o","v","e","l">>)
    IN  IF InVocab(content_type, valid_content_types) THEN content_type
        ELSE IF content_type.kind = "num" THEN Raised
        ELSE LET content_type_lower == LowerOrEmpty(content_type)
                 Match(valid_content) ==
                     \/ Replace(valid_content, "_", " ") = content_type_lower
                     \/ valid_content = content_type_lower
             IN  ForElse({v \in valid_content_types : Match(v)},
                         <<"n","o","v","e","l">>)

NormReadingLevel(raw) ==
    LET reading_level == Get(raw, <<"i","n","t","e","r","m","e","d","i","a","t","e">>)
    IN  IF InVocab(reading_level, valid_reading_levels) THEN reading_level
        ELSE IF reading_level.kind = "num" THEN Raised
        ELSE LET reading_level_lower == LowerOrEmpty(reading_level)
                 Match(valid_level) == valid_level = reading_level_lower
             IN  ForElse({v \in valid_reading_levels : Match(v)},
                         <<"i","n","t","e","r","m","e","d","i","a","t","e">>)

NormField(f, raw) ==
    CASE f = "language"        -> NormLanguage(raw)
      [] f = "target_audience" -> NormTargetAudience(raw)
      [] f = "book_type"       -> NormBookType(raw)
      [] f = "content_type"    -> NormContentType(raw)
      [] f = "reading_level"   -> NormReadingLevel(raw)

\* The whole function: the five fields of the dict are overwritten in turn;
\* an exception in any of them escapes to the caller.
validate_and_normalize_filters(data) ==
    LET out == [f \in Fields |-> NormField(f, data[f])]
    IN  IF \E f \in Fields : out[f] = Raised
        THEN [raised |-> TRUE, data |-> data]
        ELSE [raised |-> FALSE, data |-> out]

-----------------------------------------------------------------------------
(* Inputs of the normalizer: for every vocabulary value its case variants    *)
(* and separator variants, the values of the other vocabularies, the raw     *)
(* values used by the repository's tests and prompts, short garbage strings, *)
(* the empty string, null, a missing key and a non-string scalar.            *)

MaxFlips == 2
MaxGarbageLen == 2

FlipChar(c) == IF IsUpper(c) THEN LowerChar(c) ELSE UpperChar(c)

FlipAt(v, S) == [i \in 1..Len(v) |-> IF i \in S THEN FlipChar(v[i]) ELSE v[i]]

CaseVariants(v) ==
    {FlipAt(v, S) : S \in {T \in SUBSET (1..Len(v)) : Cardinality(T) <= MaxFlips}}
        \cup {Upper(v), Lower(v)}

SepForms(v) == {v, Replace(v, "_", " "), Replace(v, "_", "-")}

GarbageChars == {"x", "N", "_", "-", " "}

Garbage == UNION {[1..n -> GarbageChars] : n \in 0..MaxGarbageLen}

AllVocabulary == UNION {Vocabulary(f) : f \in Fields}

NamedRaw == {
    <<"i","n","v","a","l","i","d","_","l","a","n","g","u","a","g","e">>, <<"i","n","v","a","l","i","d","_","a","u","d","i","e","n","c","e">>, <<"i","n","v","a","l","i","d","_","t","y","p","e">>,
    <<"i","n","v","a","l","i","d","_","c","o","n","t","e","n","t">>, <<"i","n","v","a","l","i","d","_","l","e","v","e","l">>,
    <<"n","o","n","f","i","c","t","i","o","n">>, <<"c","r","e","a","t","i","v","e"," ","n","o","n","f","i","c","t","i","o","n">>, <<"N","o","n"," ","F","i","c","t","i","o","n">>, <<"s","c","i","e","n","c","e"," ","f","i","c","t","i","o","n">>, <<"F","i","c","t","i","o","n"," ","n","o","v","e","l">>,
    <<"e","n","t","e","r","t","a","i","n","m","e","n","t">>, <<"a","n","t","h","o","l","o","g","y">>, <<"k","i","d","s">>, <<"s","e","n","i","o","r">>, <<"g","r","a","p","h","i","c","_","n","o","v","e","l">>,
    <<"E","X","A","C","T","_","L","A","N","G","U","A","G","E","_","F","R","O","M","_","Q","U","E","R","Y">> }

RawStrings(f) ==
    UNION {CaseVariants(w) : w \in UNION {SepForms(v) : v \in Vocabulary(f)}}
        \cup AllVocabulary \cup NamedRaw \cup Garbage

RawInputs(f) == {Absent, Null, Num} \cup {Str(s) : s \in RawStrings(f)}

\* what the fields other than the one under test hold
FillValues == {Absent, Str(<<"x">>)}

NoResult == [raised |-> FALSE, data |-> [f \in Fields |-> Absent]]

InitNormVars ==
    /\ npc = "in"
    /\ \E f \in Fields : \E r \in RawInputs(f) : \E fill \in FillValues :
           filter_data = [g \in Fields |-> IF g = f THEN r ELSE fill]
    /\ normalized = NoResult
    /\ renormalized = NoResult

\* one call of validate_and_normalize_filters(filter_data)
Normalize ==
    /\ npc = "in"
    /\ normalized' = validate_and_normalize_filters(filter_data)
    /\ npc' = "out"
    /\ UNCHANGED <<filter_data, renormalized>>

\* the result is handed to validate_and_normalize_filters once more
Renormalize ==
    /\ npc = "out"
    /\ ~normalized.raised
    /\ renormalized' = validate_and_normalize_filters(normalized.data)
    /\ npc' = "again"
    /\ UNCHANGED <<filter_data, normalized>>


-----------------------------------------------------------------------------
(* Candidates: the elements of the JSON array a model returns, and the      *)
(* dicts built by generate_synthetic_books.                                  *)

\* A title is kept in its lower-cased identity: the title of the i-th array
\* element of the model, or one of the three forms the augmenter prints.
ModelTitle(i) == [form |-> "model", d |-> i, n |-> 0]
NullTitle     == [form |-> "null", d |-> 0, n |-> 0]

CleanFilters ==
    [f \in Fields |->
        CASE f = "language"        -> Str(<<"E","n","g","l","i","s","h">>)
          [] f = "target_audience" -> Str(<<"a","d","u","l","t">>)
          [] f = "book_type"       -> Str(<<"f","i","c","t","i","o","n">>)
          [] f = "content_type"    -> Str(<<"n","o","v","e","l">>)
          [] f = "reading_level"   -> Str(<<"i","n","t","e","r","m","e","d","i","a","t","e">>)]

\* the raw values of the repository's own normalization test, with an omitted
\* and a null field
MessyFilters ==
    [f \in Fields |->
        CASE f = "language"        -> Str(<<"e","n","g","l","i","s","h">>)
          [] f = "target_audience" -> Absent
          [] f = "book_type"       -> Str(<<"n","o","n","-","f","i","c","t","i","o","n">>)
          [] f = "content_type"    -> Str(<<"S","e","l","f"," ","H","e","l","p">>)
          [] f = "reading_level"   -> Null]

NumFilters == [CleanFilters EXCEPT !["reading_level"] = Num]

\* kinds of array element:
\*   clean, messy : dicts from which a Book can be built
\*   numfield     : a classification field is a number (normalization raises)
\*   invalid      : a dict without "description" (Book(**book_data) raises)
\*   null_title   : "title": null
\*   nondict      : the element is not a dict (a string, a number)
CandKinds == {"clean", "messy", "numfield", "invalid", "null_title", "nondict"}

MakeCand(kind, i) ==
    [src     |-> "model",
     idx     |-> i,
     kind    |-> kind,
     title   |-> IF kind = "null_title" THEN NullTitle ELSE ModelTitle(i),
     filters |-> CASE kind = "messy"    -> MessyFilters
                   [] kind = "numfield" -> NumFilters
                   [] OTHER             -> CleanFilters]

MaxModelBooks == 2

CandLists ==
    UNION {{[i \in 1..k |-> MakeCand(ks[i], i)] : ks \in [1..k -> CandKinds]}
               : k \in 0..MaxModelBooks}

-----------------------------------------------------------------------------
(* generate_synthetic_books *)

\* an if/elif chain: the result of the first rule one of whose keywords occurs
\* in the lower-cased query, else the default
FirstMatch(rules, query_lower, default) ==
    LET hits == {i \in 1..Len(rules) :
                    \E w \in rules[i].kw : Contains(query_lower, w)}
    IN  IF hits = {} THEN default
        ELSE rules[CHOOSE i \in hits : \A j \in hits : i <= j].out

Rule(kw, out) == [kw |-> kw, out |-> out]

LanguageRules == <<
    Rule({<<"m","a","r","a","t","h","i">>},  <<"M","a","r","a","t","h","i">>),
    Rule({<<"h","i","n","d","i">>},    <<"H","i","n","d","i">>),
    Rule({<<"g","u","j","a","r","a","t","i">>}, <<"G","u","j","a","r","a","t","i">>),
    Rule({<<"s","p","a","n","i","s","h">>},  <<"S","p","a","n","i","s","h">>),
    Rule({<<"f","r","e","n","c","h">>},   <<"F","r","e","n","c","h">>),
    Rule({<<"g","e","r","m","a","n">>},   <<"G","e","r","m","a","n">>),
    Rule({<<"t","a","m","i","l">>},    <<"T","a","m","i","l">>),
    Rule({<<"t","e","l","u","g","u">>},   <<"T","e","l","u","g","u">>) >>

DetectLanguage(query_lower) == FirstMatch(LanguageRules, query_lower, <<"E","n","g","l","i","s","h">>)

GenreRules == <<
    Rule({<<"s","c","i","e","n","c","e"," ","f","i","c","t","i","o","n">>, <<"s","c","i","-","f","i">>}, "Science Fiction"),
    Rule({<<"h","i","s","t","o","r","i","c","a","l"," ","b","i","o","g","r","a","p","h","y">>, <<"f","r","e","e","d","o","m"," ","f","i","g","h","t","e","r">>, <<"i","n","d","e","p","e","n","d","e","n","c","e">>},
         "Historical Biography"),
    Rule({<<"h","i","s","t","o","r","i","c","a","l"," ","f","i","c","t","i","o","n">>}, "Historical Fiction"),
    Rule({<<"t","r","u","e"," ","c","r","i","m","e">>}, "True Crime"),
    Rule({<<"y","o","u","n","g"," ","a","d","u","l","t">>, <<"y","a">>}, "Young Adult (YA)"),
    Rule({<<"g","r","a","p","h","i","c"," ","n","o","v","e","l">>}, "Graphic Novel"),
    Rule({<<"s","e","l","f","-","h","e","l","p">>, <<"s","e","l","f"," ","i","m","p","r","o","v","e","m","e","n","t">>}, "Self-Help"),
    Rule({<<"h","o","r","r","o","r">>, <<"s","c","a","r","y">>, <<"g","h","o","s","t">>}, "Horror"),
    Rule({<<"r","o","m","a","n","c","e">>, <<"l","o","v","e"," ","s","t","o","r","y">>}, "Romance"),
    Rule({<<"m","y","s","t","e","r","y">>, <<"d","e","t","e","c","t","i","v","e">>}, "Mystery"),
    Rule({<<"c","r","i","m","e">>}, "Crime Fiction"),
    Rule({<<"t","h","r","i","l","l","e","r">>, <<"s","u","s","p","e","n","s","e">>}, "Thriller/Suspense"),
    Rule({<<"b","i","o","g","r","a","p","h","y">>, <<"m","e","m","o","i","r">>}, "Biography/Memoir"),
    Rule({<<"h","i","s","t","o","r","y">>, <<"h","i","s","t","o","r","i","c","a","l">>}, "History"),
    Rule({<<"f","a","n","t","a","s","y">>, <<"m","a","g","i","c">>}, "Fantasy"),
    Rule({<<"d","y","s","t","o","p","i","a","n">>, <<"a","p","o","c","a","l","y","p","t","i","c">>}, "Dystopian"),
    Rule({<<"a","d","v","e","n","t","u","r","e">>, <<"q","u","e","s","t">>}, "Adventure"),
    Rule({<<"c","o","m","e","d","y">>, <<"h","u","m","o","r">>, <<"f","u","n","n","y">>}, "Comedy/Humor"),
    Rule({<<"p","h","i","l","o","s","o","p","h","y">>}, "Philosophy"),
    Rule({<<"s","c","i","e","n","c","e">>}, "Science (Non-Fiction)"),
    Rule({<<"c","l","a","s","s","i","c">>, <<"l","i","t","e","r","a","t","u","r","e">>}, "Classic"),
    Rule({<<"c","h","i","l","d","r","e","n">>, <<"k","i","d","s">>}, "Children's Literature"),
    Rule({<<"t","r","a","v","e","l">>}, "Travel"),
    Rule({<<"c","o","o","k","b","o","o","k">>, <<"r","e","c","i","p","e">>}, "Cookbook"),
    Rule({<<"b","u","s","i","n","e","s","s">>, <<"e","c","o","n","o","m","i","c","s">>}, "Business/Economics") >>

\* the if/elif chain tried from its last rule to its first
DetectGenre_generic_first(query_lower) ==
    FirstMatch([i \in 1..Len(GenreRules) |-> GenreRules[Len(GenreRules) + 1 - i]],
               query_lower, "General")

DetectGenre(query_lower) == FirstMatch(GenreRules, query_lower, "General")

\* len(descriptors)
NumDescriptors == 30

\* the title printed for slot i before the uniqueness loop
FirstTitle(language, i) ==
    [form |-> IF language # <<"E","n","g","l","i","s","h">> THEN "lang_volume" ELSE "collection",
     d    |-> i % NumDescriptors,
     n    |-> (i \div NumDescriptors) + 1]

AnthologyTitle(i, counter) ==
    [form |-> "anthology", d |-> i % NumDescriptors, n |-> counter]

\* the uniqueness test as an if instead of a while: one retry only
UniqueTitle_one_retry(language, i, existing_titles) ==
    IF FirstTitle(language, i) \notin existing_titles
    THEN FirstTitle(language, i)
    ELSE AnthologyTitle(i, 2)

\* the while loop: counter is raised until the title is new
UniqueTitle(language, i, existing_titles) ==
    IF FirstTitle(language, i) \notin existing_titles
    THEN FirstTitle(language, i)
    ELSE LET free == {c \in 2..(Cardinality(existing_titles) + 2) :
                         AnthologyTitle(i, c) \notin existing_titles}
         IN  AnthologyTitle(i, CHOOSE c \in free : \A e \in free : c <= e)

SyntheticBook(genre, language, i, title) ==
    [src     |-> "synthetic",
     idx     |-> i,
     kind    |-> "synthetic",
     title   |-> title,
     filters |->
        [f \in Fields |->
            CASE f = "language" -> Str(language)
              [] f = "target_audience" ->
                    IF genre \in {"Horror", "Romance", "Thriller/Suspense"}
                    THEN Str(<<"a","d","u","l","t">>) ELSE Str(<<"g","e","n","e","r","a","l">>)
              [] f = "book_type" ->
                    IF genre \in {"Biography/Memoir", "History",
                                  "Science (Non-Fiction)", "Historical Biography"}
                    THEN Str(<<"n","o","n","_","f","i","c","t","i","o","n">>) ELSE Str(<<"f","i","c","t","i","o","n">>)
              [] f = "content_type" ->
                    IF title.form \in {"collection", "anthology"}
                    THEN Str(<<"a","n","t","h","o","l","o","g","y">>) ELSE Str(<<"n","o","v","e","l">>)
              [] f = "reading_level" -> Str(<<"i","n","t","e","r","m","e","d","i","a","t","e">>)]]

RECURSIVE SyntheticFrom(_, _, _, _, _)
\* the loop  for i in range(count)  from slot i on
SyntheticFrom(genre, language, i, count, existing_titles) ==
    IF i >= count THEN <<>>
    ELSE LET title == UniqueTitle(language, i, existing_titles)
         IN  <<SyntheticBook(genre, language, i, title)>> \o
             SyntheticFrom(genre, language, i + 1, count,
                           existing_titles \cup {title})

generate_synthetic_books(query, count, existing_titles) ==
    LET query_lower == Lower(query)
    IN  SyntheticFrom(DetectGenre(query_lower), DetectLanguage(query_lower),
                      0, count, existing_titles)

-----------------------------------------------------------------------------
(* The text a model returns, as a sequence of lexical pieces:               *)
(*   fence_json  the marker ```json          fence    the marker ```        *)
(*   ws          whitespace                  prose    text without brackets *)
(*   arr         a valid JSON array, v its elements                          *)
(*   obj         a valid JSON object without an array inside                 *)
(*   obj_arr     a valid JSON object wrapping one array, v its elements      *)
(*   bad_arr     a bracketed span [ ... ] that is not valid JSON             *)

Tok(t)     == [t |-> t, v |-> <<>>]
Arr(c)     == [t |-> "arr", v |-> c]
ObjArr(c)  == [t |-> "obj_arr", v |-> c]

Front(s) == SubSeq(s, 1, Len(s) - 1)

RECURSIVE LStrip(_)
LStrip(s) == IF s # <<>> /\ s[1].t = "ws" THEN LStrip(Tail(s)) ELSE s

RECURSIVE RStrip(_)
RStrip(s) == IF s # <<>> /\ s[Len(s)].t = "ws" THEN RStrip(Front(s)) ELSE s

\* str.strip()
Strip(s) == RStrip(LStrip(s))

\* the markdown clean-up applied to the model's text and to the repair text
CleanContent(content) ==
    LET s1 == Strip(content)
        \* if content.startswith('```json'): content = content[7:]
        s2 == IF s1 # <<>> /\ s1[1].t = "fence_json" THEN Tail(s1) ELSE s1
        \* if content.startswith('```'): content = content[3:]
        s3 == IF s2 # <<>> /\ s2[1].t = "fence" THEN Tail(s2)
              ELSE IF s2 # <<>> /\ s2[1].t = "fence_json"
                   THEN <<Tok("prose")>> \o Tail(s2)
              ELSE s2
        \* if content.endswith('```'): content = content[:-3]
        s4 == IF s3 # <<>> /\ s3[Len(s3)].t = "fence" THEN Front(s3) ELSE s3
    IN  Strip(s4)

\* json.loads: the text must be one JSON value, whitespace around it allowed
JsonLoads(text) ==
    LET s == Strip(text)
    IN  IF Len(s) = 1 /\ s[1].t = "arr"
        THEN [ok |-> TRUE, is_list |-> TRUE, v |-> s[1].v]
        ELSE IF Len(s) = 1 /\ s[1].t \in {"obj", "obj_arr"}
        THEN [ok |-> TRUE, is_list |-> FALSE, v |-> <<>>]
        ELSE [ok |-> FALSE, is_list |-> FALSE, v |-> <<>>]

Bracketed == {"arr", "obj_arr", "bad_arr"}

\* re.search(r'\[.*\]', content, re.DOTALL): the span from the first '[' to
\* the last ']' of the text
RegexSearch(content) ==
    LET at    == {i \in 1..Len(content) : content[i].t \in Bracketed}
        first == CHOOSE i \in at : \A j \in at : i <= j
        last  == CHOOSE i \in at : \A j \in at : i >= j
    IN  IF at = {} THEN [found |-> FALSE, span |-> <<>>]
        ELSE IF first = last /\ content[first].t = "obj_arr"
        THEN [found |-> TRUE, span |-> <<Arr(content[first].v)>>]
        ELSE IF \E i \in at : content[i].t = "obj_arr"
        THEN [found |-> TRUE, span |-> <<Tok("bad_arr")>>]
        ELSE [found |-> TRUE, span |-> SubSeq(content, first, last)]

\* Python's  s[:n]
SliceTo(s, n) ==
    IF n >= 0 THEN SubSeq(s, 1, IF n < Len(s) THEN n ELSE Len(s))
    ELSE SubSeq(s, 1, Len(s) + n)

\* the texts a model is taken to answer with
WithPayload(c) == {
    <<Arr(c)>>,
    <<Tok("fence_json"), Tok("ws"), Arr(c), Tok("ws"), Tok("fence")>>,
    <<Tok("fence_json"), Tok("ws"), Arr(c), Tok("ws"), Tok("fence"),
      Tok("ws"), Tok("prose")>>,
    <<Tok("prose"), Tok("ws"), Arr(c)>>,
    <<ObjArr(c)>>,
    <<Tok("prose"), Tok("ws"), ObjArr(c)>> }

WithoutPayload == {
    <<Tok("ws")>>,
    <<Tok("prose")>>,
    <<Tok("obj")>>,
    <<Tok("bad_arr")>>,
    <<Tok("fence"), Tok("ws"), Tok("bad_arr"), Tok("ws"), Tok("fence")>> }

ModelTexts == UNION {WithPayload(c) : c \in CandLists} \cup WithoutPayload

\* the texts the repair call is taken to answer with
RepairLists == {c \in CandLists : \A i \in 1..Len(c) : c[i].kind \in {"clean", "invalid"}}

RepairTexts ==
    {<<Arr(c)>> : c \in RepairLists}
        \cup {<<Tok("fence_json"), Tok("ws"), Arr(c), Tok("ws"), Tok("fence")>> :
                  c \in RepairLists}
        \cup {<<Tok("obj")>>, <<Tok("prose")>>, <<Tok("bad_arr")>>}

-----------------------------------------------------------------------------
(* State of one request to POST /books/recommendations *)

VARIABLES
    pc,           \* "idle" | "invoke" | "parse" | "repair" | "build" | "done"
    request,      \* the BookRecommendationRequest body
    max_recs,     \* the count generate_recommendations is called with
    tried,        \* what each model identifier invoked so far answered
    content,      \* the text obtained from the model
    books_data,   \* the parsed candidates
    parsed_via,   \* "none" | "direct" | "extract" | "repair"
    parsed_len,   \* how many candidates the parser produced
    augmented,    \* generate_synthetic_books has been called
    repair_calls, \* number of repair round-trips issued
    response      \* what the caller receives

pvars == <<pc, request, max_recs, tried, content, books_data, parsed_via,
           parsed_len, augmented, repair_calls, response>>


\* Optional[int]
NoInt   == [absent |-> TRUE, v |-> 0]
IntV(v) == [absent |-> FALSE, v |-> v]

\* Python's  a or b  on Optional[int]
PyOr(a, b) == IF ~a.absent /\ a.v # 0 THEN a ELSE b

DefaultCount == 20
CountCap == 150

\* BookRecommendationRequest.requested_count
requested_count(req) == PyOr(req.count, PyOr(req.max_recommendations, IntV(DefaultCount))).v

Min(a, b) == IF a <= b THEN a ELSE b

\* max_recs = min(request.requested_count, 150)
ClampCount(req) == Min(requested_count(req), CountCap)

\* not request.query.strip()
IsBlank(q) == \A i \in 1..Len(q) : q[i] = " "

model_names == <<"gemini-2.0-flash-exp", "gemini-1.5-flash">>

NoResponse == [status |-> 0, error |-> "none", cause |-> "none",
               books |-> <<>>, total_count |-> 0]

\* BookRecommendationResponse(recommendations=books, total_count=len(books))
Success(books) == [status |-> 200, error |-> "none", cause |-> "none",
                   books |-> books, total_count |-> Len(books)]

HTTPError(status, error, cause) ==
    [status |-> status, error |-> error, cause |-> cause,
     books |-> <<>>, total_count |-> 0]

\* the handler  except Exception as e  around the whole body of
\* generate_recommendations: whatever was raised inside, an HTTPException
\* included, leaves as a 500 "Error generating recommendations: ..."
OuterExcept(raised) == HTTPError(500, "generic", raised.cause)

\* the router's  except HTTPException: raise
RouterExcept(err) == err

\* the request ends with the exception `raised` thrown inside the try block
Fail(raised) ==
    /\ response' = RouterExcept(OuterExcept(raised))
    /\ pc' = "done"

-----------------------------------------------------------------------------
(* Inputs *)

MaxCount == 2

Queries == { <<"H","i","n","d","i"," ","h","o","r","r","o","r">>, <<"b","o","o","k","s">> }

\* request bodies: every small count for every query; a blank query; and for one
\* query the absent and the zero count, with and without the legacy field
RequestInputs ==
    {[query |-> q, count |-> IntV(c), max_recommendations |-> NoInt] :
        q \in Queries, c \in -1..MaxCount}
    \cup {[query |-> <<" ">>, count |-> IntV(1), max_recommendations |-> NoInt]}
    \cup {[query |-> <<"b","o","o","k","s">>, count |-> c, max_recommendations |-> m] :
        c \in {NoInt, IntV(0)}, m \in {NoInt, IntV(1)}}

InitPipeVars ==
    /\ pc = "idle"
    /\ request = [query |-> <<>>, count |-> NoInt, max_recommendations |-> NoInt]
    /\ max_recs = 0
    /\ tried = <<>>
    /\ content = <<>>
    /\ books_data = <<>>
    /\ parsed_via = "none"
    /\ parsed_len = 0
    /\ augmented = FALSE
    /\ repair_calls = 0
    /\ response = NoResponse

-----------------------------------------------------------------------------
(* get_book_recommendations (router) up to the first model call *)

ReceiveRequest(req, key_configured) ==
    /\ pc = "idle"
    /\ request' = req
    /\ IF IsBlank(req.query)
       THEN /\ response' = HTTPError(400, "empty_query", "none")
            /\ pc' = "done"
            /\ UNCHANGED max_recs
       ELSE /\ max_recs' = ClampCount(req)
            /\ IF ~key_configured
               THEN \* raised before the try block: reaches the caller as it is
                    /\ response' = RouterExcept(HTTPError(500, "api_key", "none"))
                    /\ pc' = "done"
               ELSE /\ pc' = "invoke"
                    /\ UNCHANGED response
    /\ UNCHANGED <<tried, content, books_data, parsed_via, parsed_len,
                   augmented, repair_calls>>

-----------------------------------------------------------------------------
(* the loop over model_names: one iteration *)

ModelOutcomes == {"text", "empty_text", "safety_block", "no_text", "transport_error"}

\* the loop going on to the next model after an empty text as well
LoopStep_skip_empty(outcome, is_last) ==
    CASE outcome = "text" -> "break"
      [] outcome = "empty_text" -> IF is_last THEN "break" ELSE "continue"
      [] outcome = "safety_block" ->
            IF is_last THEN "raise_content_policy" ELSE "continue"
      [] outcome \in {"no_text", "transport_error"} ->
            IF is_last THEN "raise_model_error" ELSE "continue"

\* what the iteration does with the outcome of model.generate_content and
\* response.text:  "break", "continue", or the exception that leaves the loop
LoopStep(outcome, is_last) ==
    CASE outcome \in {"text", "empty_text"} -> "break"
      [] outcome = "safety_block" ->
            IF is_last THEN "raise_content_policy" ELSE "continue"
      [] outcome \in {"no_text", "transport_error"} ->
            IF is_last THEN "raise_model_error" ELSE "continue"

InvokeModel(outcome, text) ==
    /\ pc = "invoke"
    /\ Len(tried) < Len(model_names)
    /\ LET i    == Len(tried) + 1
           step == LoopStep(outcome, i = Len(model_names))
       IN  /\ tried' = Append(tried, outcome)
           /\ CASE step = "continue" ->
                     /\ pc' = "invoke"
                     /\ UNCHANGED <<content, response>>
                [] step = "raise_content_policy" ->
                     \* HTTPException(400, "... Try alternative search terms ...")
                     /\ Fail(HTTPError(400, "content_policy", "content_policy"))
                     /\ UNCHANGED content
                [] step = "raise_model_error" ->
                     /\ Fail(HTTPError(500, "model_error", "model_error"))
                     /\ UNCHANGED content
                [] step = "break" /\ outcome = "empty_text" ->
                     \* if not content: raise HTTPException(500, ...)
                     /\ Fail(HTTPError(500, "no_content", "no_content"))
                     /\ UNCHANGED content
                [] step = "break" /\ outcome = "text" ->
                     /\ content' = text
                     /\ pc' = "parse"
                     /\ UNCHANGED response
    /\ UNCHANGED <<request, max_recs, books_data, parsed_via, parsed_len,
                   augmented, repair_calls>>

-----------------------------------------------------------------------------
(* Parsing, augmentation and truncation *)

\* set(book.get('title', '').lower() for book in books_data) raises when an
\* element is not a dict or its title is null
TitlesRaise(books) ==
    \E i \in 1..Len(books) : books[i].kind \in {"nondict", "null_title"}

ExistingTitles(books) == {books[i].title : i \in 1..Len(books)}

\* the body of the first try block once json.loads has returned a list:
\* fill a shortage with synthetic books, then cut to max_recommendations
AugmentAndTruncate(books, user_query, max_recommendations) ==
    IF Len(books) < max_recommendations
    THEN IF TitlesRaise(books)
         THEN [raised |-> TRUE, augmented |-> FALSE, books |-> <<>>]
         ELSE [raised    |-> FALSE,
               augmented |-> TRUE,
               books     |-> SliceTo(
                   books \o generate_synthetic_books(
                                user_query,
                                max_recommendations - Len(books),
                                ExistingTitles(books)),
                   max_recommendations)]
    ELSE [raised |-> FALSE, augmented |-> FALSE,
          books |-> SliceTo(books, max_recommendations)]

\* the handler of json.JSONDecodeError: the array extracted by the regular
\* expression is taken as it is
AfterExtraction(books, user_query, max_recommendations) ==
    [raised |-> FALSE, augmented |-> FALSE, books |-> books]

\* the parse of the repair call's answer is taken as it is
AfterRepair(books, user_query, max_recommendations) ==
    [raised |-> FALSE, augmented |-> FALSE, books |-> books]

Parse ==
    /\ pc = "parse"
    /\ LET cleaned == CleanContent(content)
           direct  == JsonLoads(cleaned)
           m       == RegexSearch(cleaned)
           retry   == JsonLoads(m.span)
           got(r, via, n) ==
               /\ books_data' = r.books
               /\ augmented' = r.augmented
               /\ parsed_via' = via
               /\ parsed_len' = n
               /\ pc' = "build"
               /\ UNCHANGED <<content, response>>
       IN  IF direct.ok
           THEN IF ~direct.is_list
                THEN \* raise ValueError("Response must be a JSON array"): not a
                     \* JSONDecodeError, so it leaves through the outer handler
                     /\ Fail(HTTPError(500, "not_a_list", "not_a_list"))
                     /\ UNCHANGED <<content, books_data, augmented, parsed_via,
                                    parsed_len>>
                ELSE LET r == AugmentAndTruncate(direct.v, request.query, max_recs)
                     IN  IF r.raised
                         THEN /\ Fail(HTTPError(500, "augment_error", "augment_error"))
                              /\ parsed_via' = "direct"
                              /\ parsed_len' = Len(direct.v)
                              /\ UNCHANGED <<content, books_data, augmented>>
                         ELSE got(r, "direct", Len(direct.v))
           ELSE IF m.found /\ retry.ok
                THEN got(AfterExtraction(retry.v, request.query, max_recs),
                         "extract", Len(retry.v))
                ELSE \* on to the repair round-trip
                     /\ content' = IF m.found THEN m.span ELSE cleaned
                     /\ pc' = "repair"
                     /\ UNCHANGED <<books_data, augmented, parsed_via,
                                    parsed_len, response>>
    /\ UNCHANGED <<request, max_recs, tried, repair_calls>>

RepairOutcomes == {"text", "error"}

\* Repair asking the model again when its answer does not parse
Repair_again(outcome, text) ==
    /\ pc = "repair"
    /\ repair_calls' = repair_calls + 1
    /\ LET fixed == JsonLoads(CleanContent(text))
       IN  IF (outcome = "error" \/ ~fixed.ok) /\ repair_calls = 0
           THEN /\ pc' = "repair"
                /\ UNCHANGED <<books_data, augmented, parsed_via, parsed_len,
                               response>>
           ELSE IF outcome = "error" \/ ~fixed.ok \/ ~fixed.is_list
           THEN /\ Fail(HTTPError(500, "parse_failed", "parse_failed"))
                /\ UNCHANGED <<books_data, augmented, parsed_via, parsed_len>>
           ELSE /\ books_data' = fixed.v
                /\ augmented' = FALSE
                /\ parsed_via' = "repair"
                /\ parsed_len' = Len(fixed.v)
                /\ pc' = "build"
                /\ UNCHANGED response
    /\ UNCHANGED <<request, max_recs, tried, content>>

\* model.generate_content(fix_prompt) on the model that answered, and the
\* parse of what it returns
Repair(outcome, text) ==
    /\ pc = "repair"
    /\ repair_calls' = repair_calls + 1
    /\ LET fixed == JsonLoads(CleanContent(text))
       IN  IF outcome = "error" \/ ~fixed.ok
           THEN \* except Exception as final_error: raise HTTPException(500, ...)
                /\ Fail(HTTPError(500, "parse_failed", "parse_failed"))
                /\ UNCHANGED <<books_data, augmented, parsed_via, parsed_len>>
           ELSE IF ~fixed.is_list
           THEN \* a dict: books_data[:max_recommendations] raises TypeError
                /\ Fail(HTTPError(500, "slice_error", "slice_error"))
                /\ parsed_via' = "repair"
                /\ UNCHANGED <<books_data, augmented, parsed_len>>
           ELSE LET r == AfterRepair(fixed.v, request.query, max_recs)
                IN  /\ books_data' = r.books
                    /\ augmented' = r.augmented
                    /\ parsed_via' = "repair"
                    /\ parsed_len' = Len(fixed.v)
                    /\ pc' = "build"
                    /\ UNCHANGED response
    /\ UNCHANGED <<request, max_recs, tried, content>>

-----------------------------------------------------------------------------
(* Conversion to Book objects *)

\* what fetch_book_cover returns for the book at each position of the loop
CoverPatterns == {"found", "none", "alternate"}

CoverFound(pattern, j) ==
    CASE pattern = "found"     -> TRUE
      [] pattern = "none"      -> FALSE
      [] pattern = "alternate" -> j % 2 = 1

\* cover_url = await fetch_book_cover(...); if not cover_url: fallback
CoverUrl(found) == IF found THEN "google_books" ELSE "placeholder"

\* BuildBook without the call of validate_and_normalize_filters
BuildBook_unnormalized(book_data, found) ==
    IF book_data.kind \in {"nondict", "invalid", "null_title"}
    THEN [ok |-> FALSE, book |-> book_data]
    ELSE [ok   |-> TRUE,
          book |-> [src             |-> book_data.src,
                    idx             |-> book_data.idx,
                    title           |-> book_data.title,
                    cover_image_url |-> CoverUrl(found),
                    filters         |-> book_data.filters]]

\* one iteration of the loop: the Book, or dropped when anything raised
BuildBook(book_data, found) ==
    LET norm == validate_and_normalize_filters(book_data.filters)
    IN  IF book_data.kind = "nondict"
        THEN [ok |-> FALSE, book |-> book_data]   \* .get on a non-dict
        ELSE IF norm.raised
        THEN [ok |-> FALSE, book |-> book_data]
        ELSE IF book_data.kind \in {"invalid", "null_title"}
        THEN [ok |-> FALSE, book |-> book_data]   \* Book(**book_data) raises
        ELSE [ok   |-> TRUE,
              book |-> [src             |-> book_data.src,
                        idx             |-> book_data.idx,
                        title           |-> book_data.title,
                        cover_image_url |-> CoverUrl(found),
                        filters         |-> norm.data]]

RECURSIVE BuildFrom_stop_at_failure(_, _, _)
\* the loop ending at the first candidate that raises
BuildFrom_stop_at_failure(cands, j, pattern) ==
    IF j > Len(cands) THEN <<>>
    ELSE LET b == BuildBook(cands[j], CoverFound(pattern, j))
         IN  IF b.ok
             THEN <<b.book>> \o BuildFrom_stop_at_failure(cands, j + 1, pattern)
             ELSE <<>>

RECURSIVE BuildFrom(_, _, _)
BuildFrom(cands, j, pattern) ==
    IF j > Len(cands) THEN <<>>
    ELSE LET b == BuildBook(cands[j], CoverFound(pattern, j))
         IN  (IF b.ok THEN <<b.book>> ELSE <<>>) \o BuildFrom(cands, j + 1, pattern)

\* for book_data in books_data[:max_recommendations]: ...
BuildBooks(cands, max_recommendations, pattern) ==
    BuildFrom(SliceTo(cands, max_recommendations), 1, pattern)

Build(pattern) ==
    /\ pc = "build"
    /\ LET books == BuildBooks(books_data, max_recs, pattern)
       IN  IF books = <<>>
           THEN Fail(HTTPError(500, "no_valid_books", "no_valid_books"))
           ELSE /\ response' = Success(books)
                /\ pc' = "done"
    /\ UNCHANGED <<request, max_recs, tried, content, books_data, parsed_via,
                   parsed_len, augmented, repair_calls>>

-----------------------------------------------------------------------------
(* The query cache of routers/recommendations.py and POST /recommendations/quick *)

VARIABLES
    CACHE,          \* the module-level dict, as its items in insertion order
    now,            \* the wall clock, in seconds
    ticks,          \* how often the clock has been advanced
    requests,       \* how many /quick requests have been handled
    upstream_calls, \* how many times model.generate_content has been called
    last,           \* what the most recent /quick request did
    prev            \* what the request before it did

cvars == <<CACHE, now, ticks, requests, upstream_calls, last, prev>>

CACHE_TTL == 3600
CacheCapacity == 100

\* Optional[str]
NoStr   == [absent |-> TRUE, s |-> <<>>]
StrV(s) == [absent |-> FALSE, s |-> s]

RECURSIVE StrLStrip(_)
StrLStrip(s) == IF s # <<>> /\ s[1] = " " THEN StrLStrip(Tail(s)) ELSE s

RECURSIVE StrRStrip(_)
StrRStrip(s) == IF s # <<>> /\ s[Len(s)] = " " THEN StrRStrip(Front(s)) ELSE s

\* str.strip() on a string of characters
StrStrip(s) == StrRStrip(StrLStrip(s))

\* hashlib.md5(json.dumps(cache_data, sort_keys=True)): the digest is taken to
\* be one-to-one on the dumped dict, so the key is the dict itself
get_cache_key(query) ==
    [query         |-> StrStrip(Lower(query.query)),
     count         |-> query.count,
     language      |-> query.language,
     age_group     |-> query.age_group,
     book_type     |-> query.book_type,
     content_type  |-> query.content_type,
     reading_level |-> query.reading_level]

\* The module imports fastapi, genai, json, requests, re, hashlib, typing and
\* the application's own modules, and never  time : the name is unbound
TimeIsImported == FALSE

\* time.time(): the clock, or NameError
time_time(clock) ==
    IF TimeIsImported THEN [raised |-> FALSE, v |-> clock]
    ELSE [raised |-> TRUE, v |-> 0]

HasKey(cache, key) == \E i \in 1..Len(cache) : cache[i].key = key

IndexOf(cache, key) == CHOOSE i \in 1..Len(cache) : cache[i].key = key

RemoveAt(cache, i) == SubSeq(cache, 1, i - 1) \o SubSeq(cache, i + 1, Len(cache))

\* CACHE[key] = value : a new key goes last, a known key keeps its place
SetItem(cache, key, books, timestamp) ==
    LET e == [key |-> key, books |-> books, timestamp |-> timestamp]
    IN  IF HasKey(cache, key)
        THEN [cache EXCEPT ![IndexOf(cache, key)] = e]
        ELSE Append(cache, e)

\* min(CACHE.keys(), key=lambda k: CACHE[k][1]): the first of the oldest
OldestIndex(cache) ==
    CHOOSE i \in 1..Len(cache) :
        /\ \A j \in 1..Len(cache) : cache[i].timestamp <= cache[j].timestamp
        /\ \A j \in 1..(i - 1) : cache[j].timestamp > cache[i].timestamp

\* get_cached_books: the value returned (found = FALSE for None), the dict
\* afterwards, and whether an exception escaped
get_cached_books(cache, cache_key, clock) ==
    IF HasKey(cache, cache_key)
    THEN LET e == cache[IndexOf(cache, cache_key)]
             t == time_time(clock)
         IN  IF t.raised
             THEN [raised |-> TRUE, found |-> FALSE, books |-> <<>>, cache |-> cache]
             ELSE IF t.v - e.timestamp < CACHE_TTL
             THEN [raised |-> FALSE, found |-> TRUE, books |-> e.books, cache |-> cache]
             ELSE [raised |-> FALSE, found |-> FALSE, books |-> <<>>,
                   cache |-> RemoveAt(cache, IndexOf(cache, cache_key))]
    ELSE [raised |-> FALSE, found |-> FALSE, books |-> <<>>, cache |-> cache]

\* cache_books assigning the books first and reading the clock afterwards
cache_books_assign_first(cache, cache_key, books, clock) ==
    LET t  == time_time(clock)
        c1 == SetItem(cache, cache_key, books, t.v)
    IN  IF t.raised THEN [raised |-> TRUE, cache |-> c1]
        ELSE IF Len(c1) > CacheCapacity
        THEN [raised |-> FALSE, cache |-> RemoveAt(c1, OldestIndex(c1))]
        ELSE [raised |-> FALSE, cache |-> c1]

\* cache_books: the tuple (books, time.time()) is built before the assignment
cache_books(cache, cache_key, books, clock) ==
    LET t  == time_time(clock)
        c1 == SetItem(cache, cache_key, books, t.v)
    IN  IF t.raised THEN [raised |-> TRUE, cache |-> cache]
        ELSE IF Len(c1) > CacheCapacity
        THEN [raised |-> FALSE, cache |-> RemoveAt(c1, OldestIndex(c1))]
        ELSE [raised |-> FALSE, cache |-> c1]

-----------------------------------------------------------------------------
(* Inputs of the /quick endpoint *)

BaseQuery ==
    [query |-> <<"D","u","n","e">>, count |-> 15, get_all_available |-> FALSE,
     language |-> NoStr, age_group |-> NoStr, target_audience |-> NoStr,
     book_type |-> NoStr, content_type |-> NoStr, reading_level |-> NoStr,
     special_category |-> NoStr]

\* the base query, and the queries that differ from it in one attribute
QuickQueries == {
    BaseQuery,
    [BaseQuery EXCEPT !.query = <<" ","d","u","n","e"," ">>],
    [BaseQuery EXCEPT !.query = <<"D","U","N","E">>],
    [BaseQuery EXCEPT !.query = <<"E","m","m","a">>],
    [BaseQuery EXCEPT !.count = 100],
    [BaseQuery EXCEPT !.language = StrV(<<"H","i","n","d","i">>)],
    [BaseQuery EXCEPT !.age_group = StrV(<<"a","d","u","l","t">>)],
    [BaseQuery EXCEPT !.target_audience = StrV(<<"k","i","d","s">>)],
    [BaseQuery EXCEPT !.book_type = StrV(<<"f","i","c","t","i","o","n">>)],
    [BaseQuery EXCEPT !.content_type = StrV(<<"a","c","a","d","e","m","i","c">>)],
    [BaseQuery EXCEPT !.reading_level = StrV(<<"e","x","p","e","r","t">>)] }

\* what the model call of a /quick request leads to: a parsed JSON object with
\* one of two different non-empty book lists, with an empty list, or an
\* exception (the call, the parse or Book(**book_data) raised)
QuickOutcomes == {"books_a", "books_b", "empty", "error"}

QuickBooks(outcome) ==
    CASE outcome = "books_a" -> <<"a1", "a2">>
      [] outcome = "books_b" -> <<"b1">>
      [] OTHER               -> <<>>

MaxTicks == 2
MaxRequests == 2

ClockSteps == {1, CACHE_TTL - 1}

NoQuick ==
    [query |-> BaseQuery, key |-> <<>>, at |-> 0, status |-> 0,
     books |-> <<>>, generated |-> <<>>, from_cache |-> FALSE,
     upstream |-> FALSE, store_called |-> FALSE, cache_before |-> <<>>]

InitCacheVars ==
    /\ CACHE = <<>>
    /\ now = 0
    /\ ticks = 0
    /\ requests = 0
    /\ upstream_calls = 0
    /\ last = NoQuick
    /\ prev = NoQuick

Tick(d) ==
    /\ ticks < MaxTicks
    /\ ticks' = ticks + 1
    /\ now' = now + d
    /\ UNCHANGED <<CACHE, requests, upstream_calls, last, prev>>

\* the cache key of the handler: the count is forced to 5 before the key is made
QuickKey(query) ==
    <<"quick", get_cache_key([query EXCEPT !.count = 5, !.get_all_available = FALSE])>>

\* get_quick_recommendations: the handler has no await in it and runs to its end
get_quick_recommendations(query, outcome) ==
    LET cache_key == QuickKey(query)
        lookup    == get_cached_books(CACHE, cache_key, now)
        books     == QuickBooks(outcome)
        store     == cache_books(lookup.cache, cache_key, books, now)
        done(status, bs, from_cache, upstream, store_called, cache) ==
            /\ CACHE' = cache
            /\ upstream_calls' = upstream_calls + (IF upstream THEN 1 ELSE 0)
            /\ last' = [query |-> query, key |-> cache_key, at |-> now,
                        status |-> status, books |-> bs,
                        generated |-> IF store_called THEN books ELSE <<>>,
                        from_cache |-> from_cache, upstream |-> upstream,
                        store_called |-> store_called, cache_before |-> CACHE]
    IN  /\ requests < MaxRequests
        /\ requests' = requests + 1
        /\ prev' = last
        /\ IF lookup.raised
           THEN \* NameError outside the try block: an unhandled exception
                done(500, <<>>, FALSE, FALSE, FALSE, lookup.cache)
           ELSE IF lookup.found /\ lookup.books # <<>>
           THEN \* if cached_books: return cached_books
                done(200, lookup.books, TRUE, FALSE, FALSE, lookup.cache)
           ELSE IF outcome = "error"
           THEN done(500, <<>>, FALSE, TRUE, FALSE, lookup.cache)
           ELSE IF store.raised
           THEN \* except Exception: HTTPException(500, "Quick recommendation error")
                done(500, <<>>, FALSE, TRUE, TRUE, store.cache)
           ELSE done(200, books, FALSE, TRUE, TRUE, store.cache)
        /\ UNCHANGED <<now, ticks>>


-----------------------------------------------------------------------------
(* Calls of single functions: the arguments are drawn in the initial state, *)
(* one step applies the function and records what it returned.              *)

VARIABLES
    call,       \* the function called and its arguments
    returned    \* what the call returned, or NoReturn before it

fvars == <<call, returned>>

NoCall == [fn |-> "none"]
NoReturn == [done |-> FALSE]
Returned(v) == [done |-> TRUE, raised |-> FALSE, value |-> v]
RaisedOut == [done |-> TRUE, raised |-> TRUE]

CallOff == call = NoCall /\ returned = NoReturn

-----------------------------------------------------------------------------
(* generate_synthetic_books as a function of its three arguments; the titles *)
(* it prints, character by character                                         *)

descriptors == <<
    <<"E","s","s","e","n","t","i","a","l">>, <<"C","o","m","p","l","e","t","e">>, <<"D","e","f","i","n","i","t","i","v","e">>,
    <<"U","l","t","i","m","a","t","e">>, <<"C","o","m","p","r","e","h","e","n","s","i","v","e">>, <<"C","l","a","s","s","i","c">>,
    <<"M","o","d","e","r","n">>, <<"C","o","n","t","e","m","p","o","r","a","r","y">>, <<"B","e","s","t","s","e","l","l","i","n","g">>,
    <<"A","w","a","r","d","-","W","i","n","n","i","n","g">>, <<"P","o","p","u","l","a","r">>, <<"A","c","c","l","a","i","m","e","d">>,
    <<"R","e","n","o","w","n","e","d">>, <<"I","m","p","o","r","t","a","n","t">>, <<"I","n","f","l","u","e","n","t","i","a","l">>,
    <<"T","i","m","e","l","e","s","s">>, <<"N","o","t","a","b","l","e">>, <<"M","a","s","t","e","r","p","i","e","c","e">>,
    <<"G","r","o","u","n","d","b","r","e","a","k","i","n","g">>, <<"R","e","v","o","l","u","t","i","o","n","a","r","y">>, <<"E","p","i","c">>,
    <<"L","e","g","e","n","d","a","r","y">>, <<"F","a","m","o","u","s">>, <<"C","e","l","e","b","r","a","t","e","d">>,
    <<"D","i","s","t","i","n","g","u","i","s","h","e","d">>, <<"O","u","t","s","t","a","n","d","i","n","g">>, <<"E","x","c","e","p","t","i","o","n","a","l">>,
    <<"R","e","m","a","r","k","a","b","l","e">>, <<"U","n","f","o","r","g","e","t","t","a","b","l","e">>, <<"I","c","o","n","i","c">> >>

\* the name of the detected genre as it is printed into a title
GenreText(genre) ==
    CASE genre = "Science Fiction" -> <<"S","c","i","e","n","c","e"," ","F","i","c","t","i","o","n">>
      [] genre = "Historical Biography" -> <<"H","i","s","t","o","r","i","c","a","l"," ","B","i","o","g","r","a","p","h","y">>
      [] genre = "Historical Fiction" -> <<"H","i","s","t","o","r","i","c","a","l"," ","F","i","c","t","i","o","n">>
      [] genre = "True Crime" -> <<"T","r","u","e"," ","C","r","i","m","e">>
      [] genre = "Young Adult (YA)" -> <<"Y","o","u","n","g"," ","A","d","u","l","t"," ","(","Y","A",")">>
      [] genre = "Graphic Novel" -> <<"G","r","a","p","h","i","c"," ","N","o","v","e","l">>
      [] genre = "Self-Help" -> <<"S","e","l","f","-","H","e","l","p">>
      [] genre = "Horror" -> <<"H","o","r","r","o","r">>
      [] genre = "Romance" -> <<"R","o","m","a","n","c","e">>
      [] genre = "Mystery" -> <<"M","y","s","t","e","r","y">>
      [] genre = "Crime Fiction" -> <<"C","r","i","m","e"," ","F","i","c","t","i","o","n">>
      [] genre = "Thriller/Suspense" -> <<"T","h","r","i","l","l","e","r","/","S","u","s","p","e","n","s","e">>
      [] genre = "Biography/Memoir" -> <<"B","i","o","g","r","a","p","h","y","/","M","e","m","o","i","r">>
      [] genre = "History" -> <<"H","i","s","t","o","r","y">>
      [] genre = "Fantasy" -> <<"F","a","n","t","a","s","y">>
      [] genre = "Dystopian" -> <<"D","y","s","t","o","p","i","a","n">>
      [] genre = "Adventure" -> <<"A","d","v","e","n","t","u","r","e">>
      [] genre = "Comedy/Humor" -> <<"C","o","m","e","d","y","/","H","u","m","o","r">>
      [] genre = "Philosophy" -> <<"P","h","i","l","o","s","o","p","h","y">>
      [] genre = "Science (Non-Fiction)" -> <<"S","c","i","e","n","c","e"," ","(","N","o","n","-","F","i","c","t","i","o","n",")">>
      [] genre = "Classic" -> <<"C","l","a","s","s","i","c">>
      [] genre = "Children's Literature" -> <<"C","h","i","l","d","r","e","n","'","s"," ","L","i","t","e","r","a","t","u","r","e">>
      [] genre = "Travel" -> <<"T","r","a","v","e","l">>
      [] genre = "Cookbook" -> <<"C","o","o","k","b","o","o","k">>
      [] genre = "Business/Economics" -> <<"B","u","s","i","n","e","s","s","/","E","c","o","n","o","m","i","c","s">>
      [] genre = "General" -> <<"G","e","n","e","r","a","l">>

DigitChars == <<"0", "1", "2", "3", "4", "5", "6", "7", "8", "9">>

RECURSIVE Decimal(_)
\* str(n) for n >= 0
Decimal(n) ==
    IF n < 10 THEN <<DigitChars[n + 1]>>
    ELSE Decimal(n \div 10) \o <<DigitChars[(n % 10) + 1]>>

\* the f-strings of the title: the record of a title written out
TitleText(genre, language, t) ==
    CASE t.form = "collection" ->
            <<"T","h","e"," ">> \o descriptors[t.d + 1] \o <<" ">> \o GenreText(genre)
                \o <<" ","C","o","l","l","e","c","t","i","o","n"," ","-"," ","V","o","l","u","m","e"," ">> \o Decimal(t.n)
      [] t.form = "lang_volume" ->
            descriptors[t.d + 1] \o <<" ">> \o language \o <<" ">>
                \o GenreText(genre) \o <<" ","-"," ","V","o","l","u","m","e"," ">> \o Decimal(t.n)
      [] t.form = "anthology" ->
            descriptors[t.d + 1] \o <<" ">> \o GenreText(genre)
                \o <<" ","A","n","t","h","o","l","o","g","y"," ","-"," ","E","d","i","t","i","o","n"," ">> \o Decimal(t.n)
      [] t.form = "model" -> <<"M","o","d","e","l"," ","T","i","t","l","e"," ">> \o Decimal(t.d)

MaxShortage == 32

SynthQueries == {<<"b","o","o","k","s">>, <<"H","i","n","d","i"," ","h","o","r","r","o","r">>}

\* the counts: none, few, and past the end of the descriptor list
ShortageCounts == {0, 1, 2, MaxShortage - 1, MaxShortage}

\* titles already taken: a model's title and the titles the generator itself
\* would print for its first slots and for the first slot of the second volume
TakenPool(language) ==
    {ModelTitle(1), FirstTitle(language, 0), FirstTitle(language, 1),
     FirstTitle(language, NumDescriptors),
     AnthologyTitle(0, 2), AnthologyTitle(0, 3)}

SynthCalls ==
    {[fn |-> "generate_synthetic_books", query |-> q, count |-> c,
      existing_titles |-> e] :
        q \in SynthQueries, c \in ShortageCounts,
        e \in UNION {SUBSET TakenPool(DetectLanguage(Lower(q2))) : q2 \in SynthQueries}}

CallSynthetic ==
    /\ call.fn = "generate_synthetic_books"
    /\ ~returned.done
    /\ returned' = Returned(generate_synthetic_books(call.query, call.count,
                                                     call.existing_titles))
    /\ UNCHANGED call

-----------------------------------------------------------------------------
(* Cover resolution: fetch_book_cover with generate_fallback_cover as used   *)
(* by the build loop, and get_book_cover_url of routers/recommendations.py   *)

NoneUrl == [none |-> TRUE, kind |-> "none", url |-> ""]
Url(kind, url) == [none |-> FALSE, kind |-> kind, url |-> url]

\* if not cover_url
Falsy(u) == u.none \/ u.url = ""

HasSpace(v) == Contains(v.s, <<" ">>)

\* what one search request does; empty_link is a 200 response whose first image
\* link is the empty string
LookupOutcomes == {"found", "empty_link", "no_result", "non_200", "timeout",
                   "exception"}

\* what requests.head on the Open Library URL does
HeadOutcomes == {"ok_200", "non_200", "timeout", "exception"}

\* len(search_queries) before the None and empty entries are filtered out
SearchQueryCount == 4

\* the list comprehension  [q for q in search_queries if q] : how many queries
\* are left; ' ' in title raises TypeError on None
SearchQueries(title, author) ==
    IF title.kind # "str" THEN [raised |-> TRUE, n |-> 0]
    ELSE IF HasSpace(title) /\ author.kind # "str" THEN [raised |-> TRUE, n |-> 0]
    \* title.split()[0] raises IndexError when there is no word
    ELSE IF /\ HasSpace(title) /\ HasSpace(author)
            /\ (StrStrip(title.s) = <<>> \/ StrStrip(author.s) = <<>>)
         THEN [raised |-> TRUE, n |-> 0]
    ELSE [raised |-> FALSE,
          n |-> 2 + (IF HasSpace(title) /\ HasSpace(author) THEN 1 ELSE 0)
                  + (IF title.s # <<>> THEN 1 ELSE 0)]

RECURSIVE SearchFrom(_, _, _)
\* for query in search_queries: the first cover found; a timeout or another
\* exception leaves the loop
SearchFrom(k, n, lookups) ==
    IF k > n THEN [raised |-> FALSE, value |-> NoneUrl]
    ELSE CASE lookups[k] = "found" ->
                 [raised |-> FALSE,
                  value |-> Url("google_books",
                                "https://books.google.com/books/content?id=1&zoom=0")]
           [] lookups[k] = "empty_link" ->
                 [raised |-> FALSE, value |-> Url("google_books", "")]
           [] lookups[k] \in {"no_result", "non_200"} ->
                 SearchFrom(k + 1, n, lookups)
           [] lookups[k] \in {"timeout", "exception"} ->
                 [raised |-> TRUE, value |-> NoneUrl]

\* fetch_book_cover propagating what its body raises
fetch_book_cover_uncaught(title, author, lookups) ==
    LET q == SearchQueries(title, author)
    IN  IF q.raised THEN [raised |-> TRUE, value |-> NoneUrl]
        ELSE SearchFrom(1, q.n, lookups)

\* fetch_book_cover: the body is one try block, its handler falls through to
\* return None
fetch_book_cover(title, author, lookups) ==
    LET q    == SearchQueries(title, author)
        body == IF q.raised THEN [raised |-> TRUE, value |-> NoneUrl]
                ELSE SearchFrom(1, q.n, lookups)
    IN  IF body.raised THEN [raised |-> FALSE, value |-> NoneUrl]
        ELSE body

\* generate_fallback_cover: title.lower() and author[:15] raise on None, the
\* handler returns the fixed placeholder
generate_fallback_cover(title, author) ==
    IF title.kind # "str" \/ author.kind # "str"
    THEN Url("static_placeholder",
             "https://via.placeholder.com/300x400/4A5568/ffffff.png?text=Book+Cover")
    ELSE Url("placeholder",
             "https://via.placeholder.com/300x400/{bg_color}/ffffff.png?text={title_clean}%0A%0A{author_clean}")

\* cover_url = await fetch_book_cover(title, author)
\* if not cover_url: cover_url = generate_fallback_cover(title, author)
ResolveCover(title, author, lookups) ==
    LET c == fetch_book_cover(title, author, lookups)
    IN  IF c.raised THEN RaisedOut
        ELSE IF Falsy(c.value) THEN Returned(generate_fallback_cover(title, author))
        ELSE Returned(c.value)

\* get_book_cover_url: Open Library by ISBN, then Google Books, then a data URI
get_book_cover_url(title, author, isbn, head, search) ==
    IF ~isbn.absent /\ isbn.s # <<>> /\ StrStrip(isbn.s) # <<>> /\ head = "ok_200"
    THEN Returned(Url("openlibrary",
                      "https://covers.openlibrary.org/b/isbn/{clean_isbn}-L.jpg"))
    ELSE IF search = "found"
    THEN Returned(Url("google_books",
                      "https://books.google.com/books/content?id=1&zoom=1"))
    ELSE IF search = "empty_link"
    THEN Returned(Url("google_books", ""))
    ELSE Returned(Url("data_uri", "data:image/svg+xml;base64,PHN2Zy..."))

CoverTitles == {Str(<<"D","u","n","e">>), Str(<<"O","l","d"," ","M","a","n">>), Str(<<" ">>),
                Str(<<>>), Null}
CoverAuthors == {Str(<<"H","o","m","e","r">>), Str(<<"F","r","a","n","k"," ","H","e","r","b","e","r","t">>), Null}
CoverIsbns == {NoStr, StrV(<<>>), StrV(<<" "," ">>), StrV(<<"9","7","8","-","0"," ","4","4","1">>)}

CoverCalls ==
    {[fn |-> "resolve_cover", title |-> t, author |-> a, lookups |-> l] :
        t \in CoverTitles, a \in CoverAuthors,
        l \in [1..SearchQueryCount -> LookupOutcomes]}
    \cup
    {[fn |-> "get_book_cover_url", title |-> t, author |-> a, isbn |-> i,
      head |-> h, search |-> s] :
        t \in CoverTitles, a \in CoverAuthors, i \in CoverIsbns,
        h \in HeadOutcomes, s \in LookupOutcomes}

CallResolveCover ==
    /\ call.fn = "resolve_cover"
    /\ ~returned.done
    /\ returned' = ResolveCover(call.title, call.author, call.lookups)
    /\ UNCHANGED call

CallGetBookCoverUrl ==
    /\ call.fn = "get_book_cover_url"
    /\ ~returned.done
    /\ returned' = get_book_cover_url(call.title, call.author, call.isbn,
                                      call.head, call.search)
    /\ UNCHANGED call

\* the count fields of a request body: absent, zero, negative, positive up to
\* beyond the cap
CountInputs ==
    {NoInt} \cup {IntV(v) : v \in {-5, -1, 0, 1, DefaultCount, CountCap - 1, CountCap,
                                   CountCap + 1, CountCap + 50}}

CountCalls ==
    {[fn |-> "max_recs",
      request |-> [query |-> <<"b","o","o","k","s">>, count |-> c, max_recommendations |-> m]] :
        c \in CountInputs, m \in CountInputs}

\* get_book_recommendations up to the call of generate_recommendations: the
\* count the pipeline is invoked with
CallMaxRecs ==
    /\ call.fn = "max_recs"
    /\ ~returned.done
    /\ returned' = Returned(ClampCount(call.request))
    /\ UNCHANGED call

\* the processes the service may run in, told apart by the seed of their
\* string hash (PYTHONHASHSEED, random per process unless set)
MaxHashSeed == 1

HashSeeds == 0..MaxHashSeed

\* a number standing for the characters of a synthetic title
TitleNumber(t) ==
    (CASE t.form = "collection"  -> 1
       [] t.form = "lang_volume" -> 2
       [] t.form = "anthology"   -> 3
       [] OTHER                  -> 4) * 10007 + t.d * 101 + t.n

\* hash(s) of a str: a function of the string within one process, keyed by
\* the process's seed; suffix stands for the appended str(i), -1 for none
StrHash(seed, t, suffix) == TitleNumber(t) * 31 + suffix + 1 + seed * 1000003

\* len(author_pools[language]) for the pool the language selects
AuthorPoolSize(language) ==
    IF language \in {<<"M","a","r","a","t","h","i">>, <<"H","i","n","d","i">>} THEN 5 ELSE 4

\* the fields of synthetic_books.append({...}) that SyntheticBook leaves out
SyntheticDetails(b, language, seed) ==
    [title          |-> b.title,
     author         |-> <<IF language \in {<<"M","a","r","a","t","h","i">>, <<"H","i","n","d","i">>}
                          THEN language ELSE <<"E","n","g","l","i","s","h">>,
                          b.idx % AuthorPoolSize(language)>>,
     year_published |-> 2018 + (b.idx % 7),
     isbn           |-> 1000000000 + (StrHash(seed, b.title, b.idx) % 999999999),
     pages          |-> 200 + (b.idx * 15),
     \* in tenths: round(3.8 + (hash(title) % 12) / 10, 1)
     rating         |-> 38 + (StrHash(seed, b.title, -1) % 12),
     filters        |-> b.filters]

\* generate_synthetic_books with every field of its candidates, in the process
\* with the given hash seed
generate_synthetic_books_in(seed, query, count, existing_titles) ==
    LET books == generate_synthetic_books(query, count, existing_titles)
    IN  [i \in 1..Len(books) |->
            SyntheticDetails(books[i], DetectLanguage(Lower(query)), seed)]

\* two calls with the same arguments, in one process or in two
TwiceCalls ==
    UNION {{[fn |-> "generate_synthetic_books_twice", query |-> q, count |-> c,
             existing_titles |-> e, seed1 |-> s1, seed2 |-> s2] :
               c \in {0, 1, 2},
               e \in SUBSET {FirstTitle(DetectLanguage(Lower(q)), 0), ModelTitle(1)},
               s1 \in HashSeeds, s2 \in HashSeeds}
           : q \in SynthQueries}

CallSyntheticTwice ==
    /\ call.fn = "generate_synthetic_books_twice"
    /\ ~returned.done
    /\ returned' = Returned(
          <<generate_synthetic_books_in(call.seed1, call.query, call.count,
                                        call.existing_titles),
            generate_synthetic_books_in(call.seed2, call.query, call.count,
                                        call.existing_titles)>>)
    /\ UNCHANGED call

\* GENRE_KEYWORDS of gemini_service_new.py, in the order of the dict
GENRE_KEYWORDS == <<
    Rule({<<"h","i","s","t","o","r","i","c","a","l"," ","b","i","o","g","r","a","p","h","y">>, <<"f","r","e","e","d","o","m">>, <<"i","n","d","e","p","e","n","d","e","n","c","e">>}, "Historical Biography"),
    Rule({<<"h","i","s","t","o","r","i","c","a","l"," ","f","i","c","t","i","o","n">>}, "Historical Fiction"),
    Rule({<<"s","c","i","e","n","c","e"," ","f","i","c","t","i","o","n">>, <<"s","c","i","-","f","i">>}, "Science Fiction"),
    Rule({<<"t","r","u","e"," ","c","r","i","m","e">>}, "True Crime"),
    Rule({<<"y","o","u","n","g"," ","a","d","u","l","t">>, <<"y","a">>}, "Young Adult (YA)"),
    Rule({<<"g","r","a","p","h","i","c"," ","n","o","v","e","l">>, <<"c","o","m","i","c"," ","b","o","o","k">>}, "Graphic Novel"),
    Rule({<<"s","e","l","f","-","h","e","l","p">>, <<"s","e","l","f"," ","i","m","p","r","o","v","e","m","e","n","t">>, <<"m","o","t","i","v","a","t","i","o","n">>}, "Self-Help"),
    Rule({<<"c","o","o","k","b","o","o","k">>, <<"r","e","c","i","p","e">>}, "Cookbook"),
    Rule({<<"b","u","s","i","n","e","s","s">>, <<"e","c","o","n","o","m","i","c","s">>, <<"f","i","n","a","n","c","e">>}, "Business/Economics"),
    Rule({<<"c","h","i","l","d","r","e","n","'","s">>, <<"k","i","d","s">>, <<"p","i","c","t","u","r","e"," ","b","o","o","k">>}, "Children's Literature"),
    Rule({<<"h","o","r","r","o","r">>, <<"s","c","a","r","y">>, <<"c","h","i","l","l","i","n","g">>}, "Horror"),
    Rule({<<"r","o","m","a","n","c","e">>, <<"l","o","v","e"," ","s","t","o","r","y">>}, "Romance"),
    Rule({<<"m","y","s","t","e","r","y">>, <<"d","e","t","e","c","t","i","v","e">>}, "Mystery"),
    Rule({<<"c","r","i","m","e">>}, "Crime Fiction"),
    Rule({<<"t","h","r","i","l","l","e","r">>, <<"s","u","s","p","e","n","s","e">>}, "Thriller/Suspense"),
    Rule({<<"b","i","o","g","r","a","p","h","y">>, <<"m","e","m","o","i","r">>}, "Biography/Memoir"),
    Rule({<<"h","i","s","t","o","r","y">>, <<"h","i","s","t","o","r","i","c","a","l">>}, "History"),
    Rule({<<"f","a","n","t","a","s","y">>, <<"m","a","g","i","c">>, <<"d","r","a","g","o","n">>}, "Fantasy"),
    Rule({<<"d","y","s","t","o","p","i","a","n">>, <<"a","p","o","c","a","l","y","p","t","i","c">>}, "Dystopian"),
    Rule({<<"a","d","v","e","n","t","u","r","e">>, <<"q","u","e","s","t">>, <<"j","o","u","r","n","e","y">>}, "Adventure"),
    Rule({<<"c","o","m","e","d","y">>, <<"h","u","m","o","r">>, <<"f","u","n","n","y">>}, "Comedy/Humor"),
    Rule({<<"p","h","i","l","o","s","o","p","h","y">>}, "Philosophy"),
    Rule({<<"s","c","i","e","n","c","e">>}, "Science (Non-Fiction)"),
    Rule({<<"c","l","a","s","s","i","c">>, <<"l","i","t","e","r","a","t","u","r","e">>}, "Classic"),
    Rule({<<"t","r","a","v","e","l">>, <<"g","u","i","d","e","b","o","o","k">>}, "Travel") >>

\* GeminiService._detect_query_genre of gemini_service_new.py
detect_query_genre(query_lower) == FirstMatch(GENRE_KEYWORDS, query_lower, "General")

KeywordsOf(rules) == UNION {rules[i].kw : i \in 1..Len(rules)}

\* queries: one keyword, two keywords in either order, and no keyword at all
GenreQueries ==
    LET kws == KeywordsOf(GenreRules) \cup KeywordsOf(GENRE_KEYWORDS)
    IN  kws \cup {a \o <<" ">> \o b : a, b \in kws}
            \cup {<<>>, <<"b","o","o","k","s">>, <<"S","c","i","e","n","c","e"," ","F","i","c","t","i","o","n">>, <<"g","o","o","d"," ","r","e","a","d","s"," ","f","o","r"," ","t","h","e"," ","s","u","m","m","e","r">>}

GenreCalls == {[fn |-> "detect_genre", query |-> q] : q \in GenreQueries}

\* the genre detection of generate_synthetic_books and of _detect_query_genre
CallDetectGenre ==
    /\ call.fn = "detect_genre"
    /\ ~returned.done
    /\ returned' = Returned(<<DetectGenre(Lower(call.query)),
                              detect_query_genre(Lower(call.query))>>)
    /\ UNCHANGED call

\* the queries of search_queries that are left after the filter, richest first
SearchQueryKinds(title, author) ==
    <<"intitle_inauthor", "title_author">>
        \o (IF HasSpace(title) /\ HasSpace(author) THEN <<"first_words">> ELSE <<>>)
        \o (IF title.s # <<>> THEN <<"title">> ELSE <<>>)

RECURSIVE StepsFrom_exhaustive(_, _, _)
\* the loop going through every query whatever the earlier ones returned
StepsFrom_exhaustive(k, kinds, lookups) ==
    IF k > Len(kinds) THEN <<>>
    ELSE <<kinds[k]>> \o StepsFrom_exhaustive(k + 1, kinds, lookups)

RECURSIVE StepsFrom(_, _, _)
\* the requests the loop of fetch_book_cover makes, in the order it makes them
StepsFrom(k, kinds, lookups) ==
    IF k > Len(kinds) THEN <<>>
    ELSE <<kinds[k]>> \o (IF lookups[k] \in {"no_result", "non_200"}
                          THEN StepsFrom(k + 1, kinds, lookups)
                          ELSE <<>>)

\* the steps of the build loop's cover resolution: the requests of
\* fetch_book_cover, then generate_fallback_cover if nothing usable came back
ResolveSteps(title, author, lookups) ==
    LET q == SearchQueries(title, author)
        c == fetch_book_cover(title, author, lookups)
    IN  (IF q.raised THEN <<>>
         ELSE StepsFrom(1, SearchQueryKinds(title, author), lookups))
        \o (IF Falsy(c.value) THEN <<"placeholder">> ELSE <<>>)

\* the steps of get_book_cover_url
get_book_cover_url_steps(isbn, head, search) ==
    LET probe == ~isbn.absent /\ isbn.s # <<>> /\ StrStrip(isbn.s) # <<>>
    IN  (IF probe THEN <<"isbn_probe">> ELSE <<>>)
        \o (IF probe /\ head = "ok_200" THEN <<>>
            ELSE <<"search">>
                 \o (IF search \in {"found", "empty_link"} THEN <<>>
                     ELSE <<"placeholder">>))

\* the calls of the cover resolvers again, returning the steps with the result
ChainCalls ==
    {[c EXCEPT !.fn = IF c.fn = "resolve_cover" THEN "chain_resolve_cover"
                      ELSE "chain_get_book_cover_url"] : c \in CoverCalls}

CallCoverChain ==
    /\ call.fn \in {"chain_resolve_cover", "chain_get_book_cover_url"}
    /\ ~returned.done
    /\ returned' =
          IF call.fn = "chain_resolve_cover"
          THEN Returned([steps |-> ResolveSteps(call.title, call.author, call.lookups),
                         url   |-> ResolveCover(call.title, call.author,
                                                call.lookups).value])
          ELSE Returned([steps |-> get_book_cover_url_steps(call.isbn, call.head,
                                                            call.search),
                         url   |-> get_book_cover_url(call.title, call.author,
                                                      call.isbn, call.head,
                                                      call.search).value])
    /\ UNCHANGED call

-----------------------------------------------------------------------------
(* POST /saved-books/ : concurrent requests against the saved_books        *)
(* collection; a request gives way to the others at each await             *)

VARIABLES
    saved_books,    \* the documents of the collection, in insertion order
    saves           \* the save_book requests in flight: input, position, status

svars == <<saved_books, saves>>

MaxSaves == 3

Users == {"u1", "u2"}

\* (title, author) of the request bodies
SavedBookData == {<<"Dune", "Frank Herbert">>, <<"Dune", "Brian Herbert">>}

SaveOff == saved_books = <<>> /\ saves = <<>>

\* SavedBook.find_one({"user_id": ..., "title": ..., "author": ...})
find_one(collection, user_id, title, author) ==
    \E i \in 1..Len(collection) :
        /\ collection[i].user_id = user_id
        /\ collection[i].title = title
        /\ collection[i].author = author

\* save_book up to its second await: the lookup, then 409 if a document was
\* found, else on to the insert
save_book_find(r) ==
    /\ saves[r].pc = "find"
    /\ IF find_one(saved_books, saves[r].user_id, saves[r].title, saves[r].author)
       THEN saves' = [saves EXCEPT ![r].pc = "done", ![r].status = 409]
       ELSE saves' = [saves EXCEPT ![r].pc = "insert"]
    /\ UNCHANGED saved_books

\* await saved_book.insert(), then 201; 500 when the insert raises
save_book_insert(r, ok) ==
    /\ saves[r].pc = "insert"
    /\ IF ok
       THEN /\ saved_books' = Append(saved_books,
                                     [id      |-> r,
                                      user_id |-> saves[r].user_id,
                                      title   |-> saves[r].title,
                                      author  |-> saves[r].author])
            /\ saves' = [saves EXCEPT ![r].pc = "done", ![r].status = 201]
       ELSE /\ saves' = [saves EXCEPT ![r].pc = "done", ![r].status = 500]
            /\ UNCHANGED saved_books

-----------------------------------------------------------------------------

vars == <<nvars, pvars, cvars, fvars, svars>>

NormOff ==
    /\ npc = "off"
    /\ filter_data = [f \in Fields |-> Absent]
    /\ normalized = NoResult
    /\ renormalized = NoResult

Init == InitPipeVars /\ NormOff /\ InitCacheVars /\ CallOff /\ SaveOff

Next ==
    \/ \E req \in RequestInputs : \E key \in BOOLEAN :
           ReceiveRequest(req, key) /\ UNCHANGED <<nvars, cvars, fvars, svars>>
    \/ \E o \in ModelOutcomes :
       \E t \in (IF o = "text" THEN ModelTexts ELSE {<<>>}) :
           InvokeModel(o, t) /\ UNCHANGED <<nvars, cvars, fvars, svars>>
    \/ Parse /\ UNCHANGED <<nvars, cvars, fvars, svars>>
    \/ \E o \in RepairOutcomes :
       \E t \in (IF o = "text" THEN RepairTexts ELSE {<<>>}) :
           Repair(o, t) /\ UNCHANGED <<nvars, cvars, fvars, svars>>
    \/ \E p \in CoverPatterns : Build(p) /\ UNCHANGED <<nvars, cvars, fvars, svars>>

\* one request to POST /books/recommendations
Spec == Init /\ [][Next]_vars

InitNorm == InitNormVars /\ InitPipeVars /\ InitCacheVars /\ CallOff /\ SaveOff

\* validate_and_normalize_filters applied to one dict, and to its result
NextNorm ==
    \/ Normalize /\ UNCHANGED <<pvars, cvars, fvars, svars>>
    \/ Renormalize /\ UNCHANGED <<pvars, cvars, fvars, svars>>

SpecNorm == InitNorm /\ [][NextNorm]_vars

InitCache == InitCacheVars /\ InitPipeVars /\ NormOff /\ CallOff /\ SaveOff

\* a sequence of requests to POST /recommendations/quick as the clock advances
NextCache ==
    \/ \E d \in ClockSteps : Tick(d) /\ UNCHANGED <<nvars, pvars, fvars, svars>>
    \/ \E q \in QuickQueries : \E o \in QuickOutcomes :
           get_quick_recommendations(q, o) /\ UNCHANGED <<nvars, pvars, fvars, svars>>

SpecCache == InitCache /\ [][NextCache]_vars

InitCalls ==
    /\ call \in SynthCalls \cup CoverCalls \cup CountCalls \cup TwiceCalls
                \cup GenreCalls \cup ChainCalls
    /\ returned = NoReturn
    /\ InitPipeVars /\ NormOff /\ InitCacheVars /\ SaveOff

\* one call of one function
NextCalls ==
    \/ CallSynthetic /\ UNCHANGED <<nvars, pvars, cvars, svars>>
    \/ CallResolveCover /\ UNCHANGED <<nvars, pvars, cvars, svars>>
    \/ CallGetBookCoverUrl /\ UNCHANGED <<nvars, pvars, cvars, svars>>
    \/ CallMaxRecs /\ UNCHANGED <<nvars, pvars, cvars, svars>>
    \/ CallSyntheticTwice /\ UNCHANGED <<nvars, pvars, cvars, svars>>
    \/ CallDetectGenre /\ UNCHANGED <<nvars, pvars, cvars, svars>>
    \/ CallCoverChain /\ UNCHANGED <<nvars, pvars, cvars, svars>>

SpecCalls == InitCalls /\ [][NextCalls]_vars

InitSave ==
    /\ saved_books = <<>>
    /\ saves \in [1..MaxSaves ->
                    {[user_id |-> u, title |-> b[1], author |-> b[2],
                      pc |-> "find", status |-> 0] : u \in Users, b \in SavedBookData}]
    /\ InitPipeVars /\ NormOff /\ InitCacheVars /\ CallOff

\* the save_book requests, interleaved at their awaits
NextSave ==
    \/ \E r \in 1..MaxSaves :
           save_book_find(r) /\ UNCHANGED <<nvars, pvars, cvars, fvars>>
    \/ \E r \in 1..MaxSaves : \E ok \in BOOLEAN :
           save_book_insert(r, ok) /\ UNCHANGED <<nvars, pvars, cvars, fvars>>

SpecSave == InitSave /\ [][NextSave]_vars


-----------------------------------------------------------------------------
(* Properties of generate_recommendations (Spec) *)

Succeeded == pc = "done" /\ response.status = 200

\* C1: for every requested count n in [1,150], a successful
\* generate_recommendations returns exactly n books and total_count = n.
C1_ExactCount ==
    (Succeeded /\ max_recs \in 1..CountCap) =>
        /\ Len(response.books) = max_recs
        /\ response.total_count = max_recs

\* C2: whenever the parsed candidate list is shorter than the requested count,
\* generate_synthetic_books has been invoked before any Book is constructed,
\* whichever parser step produced the candidates.
C2_AugmentedBeforeBuild ==
    (pc = "build" /\ parsed_len < max_recs) => augmented

IsModelBook(b) == b.src = "model"
IsSynthetic(b) == b.src = "synthetic"

\* C3: in every successful result the model-sourced books keep their order in
\* the parsed array, every synthetic book comes after every model-sourced one,
\* and when the model returned k < n candidates positions 1..k hold model books
\* and positions k+1..n hold synthetic ones.
C3_OrderAndPositions ==
    Succeeded =>
        LET bs == response.books
        IN  /\ \A i, j \in 1..Len(bs) :
                  (i < j /\ IsModelBook(bs[i]) /\ IsModelBook(bs[j]))
                      => bs[i].idx < bs[j].idx
            /\ \A i, j \in 1..Len(bs) :
                  (i < j /\ IsSynthetic(bs[i])) => IsSynthetic(bs[j])
            /\ (max_recs >= 1 /\ parsed_len < max_recs) =>
                  /\ Len(bs) = max_recs
                  /\ \A p \in 1..parsed_len : IsModelBook(bs[p])
                  /\ \A p \in (parsed_len + 1)..max_recs : IsSynthetic(bs[p])

AllBlocked ==
    /\ Len(tried) = Len(model_names)
    /\ \A i \in 1..Len(tried) : tried[i] = "safety_block"

\* C4: when every model identifier reports a safety block the caller receives
\* the content-policy error, a 400 with the rephrasing hint, and not the generic
\* server error.
C4_ContentPolicyIs400 ==
    (pc = "done" /\ AllBlocked) =>
        /\ response.status = 400
        /\ response.error = "content_policy"

-----------------------------------------------------------------------------
(* Properties of the query cache (SpecCache) *)

\* C5: of two identical requests, the second arriving while the (non-empty)
\* result stored by the first is younger than the TTL, the second returns the
\* first's result without an upstream call; when the entry's age has reached
\* the TTL the second makes a fresh upstream call.
C5_CacheHitWithinTTL ==
    (/\ requests >= 2
     /\ prev.store_called
     /\ prev.generated # <<>>
     /\ prev.query = last.query) =>
        IF last.at - prev.at < CACHE_TTL
        THEN /\ ~last.upstream
             /\ last.status = 200
             /\ last.books = prev.generated
        ELSE last.upstream

KeysOf(cache) == {cache[i].key : i \in 1..Len(cache)}

TimestampOf(cache, key) ==
    cache[CHOOSE i \in 1..Len(cache) : cache[i].key = key].timestamp

FilterNames == {"language", "age_group", "target_audience", "book_type",
                "content_type", "reading_level"}

FilterOf(q, f) ==
    CASE f = "language"        -> q.language
      [] f = "age_group"       -> q.age_group
      [] f = "target_audience" -> q.target_audience
      [] f = "book_type"       -> q.book_type
      [] f = "content_type"    -> q.content_type
      [] f = "reading_level"   -> q.reading_level

DifferInCountOrFilter(a, b) ==
    \/ a.count # b.count
    \/ \E f \in FilterNames : FilterOf(a, f) # FilterOf(b, f)

DifferOnlyInCaseOrSpace(a, b) ==
    /\ ~DifferInCountOrFilter(a, b)
    /\ StrStrip(Lower(a.query)) = StrStrip(Lower(b.query))

\* C7: two queries that differ in the count or in the value of any filter get
\* different cache fingerprints; two queries that differ only in the case or
\* the surrounding whitespace of the query text get the same fingerprint.
C7_FingerprintSeparates ==
    requests >= 2 =>
        /\ DifferInCountOrFilter(prev.query, last.query) => prev.key # last.key
        /\ DifferOnlyInCaseOrSpace(prev.query, last.query) => prev.key = last.key

-----------------------------------------------------------------------------
(* Properties of validate_and_normalize_filters (SpecNorm) *)

Normalized == npc \in {"out", "again"}

NoNumber(data) == \A f \in Fields : data[f].kind # "num"

\* C8: for every raw string value of each classification field (the empty
\* string and garbage included) the field is set to a member of that field's
\* vocabulary; an invalid raw value is never passed through.
C8_NormalizationTotal ==
    Normalized =>
        /\ NoNumber(filter_data) => ~normalized.raised
        /\ ~normalized.raised =>
              \A f \in Fields : InVocab(normalized.data[f], Vocabulary(f))

C8_Witness ==
    /\ npc = "out"
    /\ filter_data["book_type"] = Str(<<"i","n","v","a","l","i","d","_","t","y","p","e">>)
    /\ filter_data["language"] = Str(<<"x">>)
    /\ normalized.data["book_type"] = Str(<<"f","i","c","t","i","o","n">>)
    /\ normalized.data["language"] = Str(<<"E","n","g","l","i","s","h">>)

\* C9: normalization is idempotent: a value already in the field's vocabulary
\* is returned unchanged, and normalizing the output of a normalization yields
\* the same output.
C9_NormalizationIdempotent ==
    /\ (Normalized /\ ~normalized.raised) =>
          \A f \in Fields :
              InVocab(filter_data[f], Vocabulary(f))
                  => normalized.data[f] = filter_data[f]
    /\ npc = "again" =>
          /\ ~renormalized.raised
          /\ renormalized.data = normalized.data

C9_Witness ==
    /\ npc = "again"
    /\ filter_data["content_type"] = Str(<<"S","e","l","f"," ","H","e","l","p">>)
    /\ normalized.data["content_type"] = Str(<<"s","e","l","f","_","h","e","l","p">>)
    /\ renormalized.data["content_type"] = Str(<<"s","e","l","f","_","h","e","l","p">>)

\* C10: for each field and each vocabulary value v, every upper/lower-case
\* variant of v normalizes to v.
C10_CaseVariantsNormalize ==
    (Normalized /\ ~normalized.raised) =>
        \A f \in Fields : \A v \in Vocabulary(f) :
            (filter_data[f].kind = "str" /\ Lower(filter_data[f].s) = Lower(v))
                => normalized.data[f] = Str(v)

\* underscore, hyphen and space taken as one separator
Canon(s) == Replace(Replace(s, " ", "_"), "-", "_")

\* underscore, hyphen and space left out
Unseparated(s) == SelectSeq(s, LAMBDA c : c \notin {"_", "-", " "})

SameUpToSeparators(s, v) == Canon(Lower(s)) = Canon(Lower(v))

\* C11: for each field, a raw value that equals a vocabulary value v once
\* underscores, spaces and hyphens are treated as the same separator
\* ('non fiction', 'young adult', 'self-help', 'Self Help', 'short-stories')
\* normalizes to v.
C11_SeparatorVariantsNormalize ==
    (Normalized /\ ~normalized.raised) =>
        \A f \in Fields : \A v \in Vocabulary(f) :
            (/\ filter_data[f].kind = "str"
             /\ SameUpToSeparators(filter_data[f].s, v))
                => normalized.data[f] = Str(v)

\* the raw value matches a vocabulary value of the field when case is ignored
\* and the separators are taken as the same or are left out
MatchesVocabulary(f, raw) ==
    /\ raw.kind = "str"
    /\ \E v \in Vocabulary(f) :
           \/ SameUpToSeparators(raw.s, v)
           \/ Unseparated(Lower(raw.s)) = Unseparated(Lower(v))

\* C12 as stated: for each field, a raw value that matches no vocabulary value
\* under case-insensitive and separator-insensitive comparison is replaced by
\* the field's default and by nothing else.
C12_UnmatchedBecomesDefault ==
    (Normalized /\ ~normalized.raised) =>
        \A f \in Fields :
            ~MatchesVocabulary(f, filter_data[f])
                => normalized.data[f] = Str(DefaultOf(f))

NamesNonFiction(raw) ==
    /\ raw.kind = "str"
    /\ \/ Contains(Lower(raw.s), <<"n","o","n","-","f","i","c","t","i","o","n">>)
       \/ Contains(Lower(raw.s), <<"n","o","n","f","i","c","t","i","o","n">>)

\* C12 amended: an unmatched raw value is replaced by the field's default,
\* except that a book_type which contains 'non-fiction' or 'nonfiction'
\* becomes 'non_fiction'.
C12_UnmatchedBecomesDefaultOrNonFiction ==
    (Normalized /\ ~normalized.raised) =>
        \A f \in Fields :
            ~MatchesVocabulary(f, filter_data[f]) =>
                IF f = "book_type" /\ NamesNonFiction(filter_data[f])
                THEN normalized.data[f] = Str(<<"n","o","n","_","f","i","c","t","i","o","n">>)
                ELSE normalized.data[f] = Str(DefaultOf(f))

C12_Witness ==
    /\ npc = "out"
    /\ filter_data["content_type"] = Str(<<"a","n","t","h","o","l","o","g","y">>)
    /\ filter_data["reading_level"] = Str(<<"x">>)
    /\ normalized.data["content_type"] = Str(<<"n","o","v","e","l">>)
    /\ normalized.data["reading_level"] = Str(<<"i","n","t","e","r","m","e","d","i","a","t","e">>)

-----------------------------------------------------------------------------
(* Properties of the books of a response (Spec) *)

\* C13: every Book of every successful response, model-sourced or synthetic,
\* has each of its five classification attributes set to a non-empty value of
\* the corresponding vocabulary, also when the candidate omitted the field or
\* gave null.
C13_AttributesAlwaysSet ==
    Succeeded =>
        \A i \in 1..Len(response.books) : \A f \in Fields :
            /\ InVocab(response.books[i].filters[f], Vocabulary(f))
            /\ response.books[i].filters[f].s # <<>>

\* a response with a book built from a candidate with an omitted and a null
\* field, followed by a synthetic book whose dict said 'anthology'
C13_Witness ==
    /\ Succeeded
    /\ \E i, j \in 1..Len(response.books) :
          /\ IsModelBook(response.books[i])
          /\ \E k \in 1..Len(books_data) :
                /\ books_data[k].kind = "messy"
                /\ books_data[k].idx = response.books[i].idx
                /\ books_data[k].src = "model"
          /\ IsSynthetic(response.books[j])
          /\ \E k \in 1..Len(books_data) :
                /\ books_data[k].src = "synthetic"
                /\ books_data[k].filters["content_type"] = Str(<<"a","n","t","h","o","l","o","g","y">>)
                /\ books_data[k].idx = response.books[j].idx

-----------------------------------------------------------------------------
(* Properties of generate_synthetic_books (SpecCalls) *)

SyntheticReturned == call.fn = "generate_synthetic_books" /\ returned.done

\* C14: for every query, shortage count and set of existing lower-cased
\* titles, generate_synthetic_books returns exactly count candidates whose
\* titles, compared case-insensitively, are pairwise distinct and distinct from
\* every supplied existing title; the retry loop ends, after at most as many
\* rounds as there are titles taken.
C14_SyntheticTitlesUnique ==
    SyntheticReturned =>
        LET books    == returned.value
            genre    == DetectGenre(Lower(call.query))
            language == DetectLanguage(Lower(call.query))
            lowered(t) == Lower(TitleText(genre, language, t))
        IN  /\ ~returned.raised
            /\ Len(books) = call.count
            /\ \A i, j \in 1..Len(books) :
                  i # j => lowered(books[i].title) # lowered(books[j].title)
            /\ \A i \in 1..Len(books) : \A e \in call.existing_titles :
                  lowered(books[i].title) # lowered(e)
            /\ \A i \in 1..Len(books) :
                  books[i].title.form = "anthology" =>
                      books[i].title.n <= Cardinality(call.existing_titles)
                                              + Len(books) + 1

\* both the first slot and the first slot of the second volume collide, and the
\* first retry of the latter collides again
C14_Witness ==
    /\ SyntheticReturned
    /\ call.count = MaxShortage
    /\ AnthologyTitle(0, 2) \in call.existing_titles
    /\ returned.value[1].title = AnthologyTitle(0, 3)
    /\ returned.value[NumDescriptors + 1].title = AnthologyTitle(0, 4)

-----------------------------------------------------------------------------
(* Properties of the parser steps (Spec) *)

DirectParseFails(text) == ~JsonLoads(CleanContent(text)).ok

ExtractionFails(text) ==
    LET m == RegexSearch(CleanContent(text))
    IN  ~(m.found /\ JsonLoads(m.span).ok)

\* C15: the repair round-trip is issued only after both the direct parse and
\* the bracket-span extraction have failed, and at most once per request; when
\* the extraction yields a parseable array no repair call is made; when direct
\* parse, extraction and the one repair all fail, the request ends in the
\* terminal error for a malformed response.
C15_RepairLastAndOnce ==
    /\ [][(pc = "parse" /\ pc' = "repair")
             => (DirectParseFails(content) /\ ExtractionFails(content))]_vars
    /\ [][repair_calls' # repair_calls
             => (pc = "repair" /\ repair_calls = 0 /\ repair_calls' = 1)]_vars
    /\ [](pc = "repair" => repair_calls = 0)
    /\ [](parsed_via \in {"direct", "extract"} => repair_calls = 0)
    /\ []((pc = "done" /\ repair_calls = 1 /\ parsed_via = "none")
             => (response.status = 500 /\ response.cause = "parse_failed"))

\* the answer of the repair call does not parse either
C15_Witness ==
    /\ pc = "done"
    /\ repair_calls = 1
    /\ parsed_via = "none"
    /\ response.status = 500
    /\ response.cause = "parse_failed"


-----------------------------------------------------------------------------
\* the lookup of a finished cover call found nothing usable: every request
\* ended with no result, a non-200 status, a timeout or an exception
LookupFailed ==
    IF call.fn = "resolve_cover"
    THEN \A k \in 1..SearchQueryCount :
            call.lookups[k] \in {"no_result", "non_200", "timeout", "exception"}
    ELSE /\ call.head \in {"non_200", "timeout", "exception"}
         /\ call.search \in {"no_result", "non_200", "timeout", "exception"}

Placeholders == {"placeholder", "static_placeholder", "data_uri"}

\* C16: cover resolution never raises; the build loop's resolution always
\* returns a non-empty URL; a lookup that fails or comes back empty (no result,
\* non-200, timeout, exception), in either resolver, returns a non-empty
\* placeholder URL
C16_CoverAlwaysResolved ==
    (call.fn \in {"resolve_cover", "get_book_cover_url"} /\ returned.done) =>
        /\ ~returned.raised
        /\ ~returned.value.none
        /\ call.fn = "resolve_cover" => returned.value.url # ""
        /\ LookupFailed =>
              /\ returned.value.url # ""
              /\ returned.value.kind \in Placeholders

\* a timeout on the third of four queries, after a non-200 and an empty
\* result, ends with the synthesized placeholder
C16_Witness ==
    /\ call.fn = "resolve_cover"
    /\ call.title = Str(<<"O","l","d"," ","M","a","n">>)
    /\ call.author = Str(<<"F","r","a","n","k"," ","H","e","r","b","e","r","t">>)
    /\ call.lookups = <<"non_200", "no_result", "timeout", "exception">>
    /\ returned.done
    /\ returned.value.kind = "placeholder"


-----------------------------------------------------------------------------
\* C17: whatever the request's count and max_recommendations (absent, zero,
\* negative, positive, beyond 150), the pipeline is invoked with a count in
\* 1..150; with both fields absent it is 20, and a requested count above 150
\* becomes 150
C17_CountClamped ==
    (call.fn = "max_recs" /\ returned.done) =>
        /\ returned.value \in 1..CountCap
        /\ (call.request.count.absent /\ call.request.max_recommendations.absent)
              => returned.value = DefaultCount
        /\ requested_count(call.request) > CountCap => returned.value = CountCap


-----------------------------------------------------------------------------
\* the i-th call of the loop goes to model_names[i]
Invoked == [i \in 1..Len(tried) |-> model_names[i]]

InListOrder ==
    /\ Len(tried) <= Len(model_names)
    /\ Invoked = SubSeq(model_names, 1, Len(tried))

NothingAfterText ==
    \A i \in 1..Len(tried) : tried[i] = "text" => i = Len(tried)

\* C18 as stated: models are invoked in list order; the fallback model is
\* invoked only after the preceding model raised a transport error or had its
\* output withheld for safety; no model is invoked after one returned text
C18_FallbackOnlyAfterTransportOrSafety ==
    /\ InListOrder
    /\ NothingAfterText
    /\ \A i \in 2..Len(tried) : tried[i - 1] \in {"transport_error", "safety_block"}

\* C18 amended: models are invoked in list order, one more per step; the
\* fallback model is invoked only after the preceding call raised an exception
\* of any kind (a transport error, or a response whose text cannot be read for
\* a reason other than safety) or had its output withheld for safety; no model
\* is invoked after one returned text, empty or not
C18_FallbackOnlyAfterErrorOrSafety ==
    /\ [](/\ InListOrder
          /\ NothingAfterText
          /\ \A i \in 2..Len(tried) :
                tried[i - 1] \in {"transport_error", "no_text", "safety_block"})
    /\ [][tried' # tried => (\E o \in ModelOutcomes : tried' = Append(tried, o))]_vars

\* the first model's response has no readable text for a non-safety reason and
\* the fallback model answers
C18_Witness ==
    /\ tried = <<"no_text", "text">>
    /\ pc = "parse"


-----------------------------------------------------------------------------
\* C19: a model answering with empty text does not end the loop while another
\* identifier is left; the request fails for lack of content only after every
\* identifier was tried; the text handed to the parser is not empty
C19_FirstNonEmptyText ==
    /\ (/\ tried # <<>>
        /\ tried[Len(tried)] = "empty_text"
        /\ Len(tried) < Len(model_names)) => pc = "invoke"
    /\ response.cause = "no_content" => Len(tried) = Len(model_names)
    /\ pc \in {"parse", "repair", "build"} => content # <<>>


-----------------------------------------------------------------------------
\* C20: the content-policy error is raised only when every model withheld its
\* output for safety; when some model failed with a transport error and none
\* returned text, the request fails with the upstream-unavailable kind of
\* error, in whichever order the two kinds of failure occurred
C20_ContentPolicyOnlyWhenAllWithheld ==
    /\ response.cause = "content_policy" => AllBlocked
    /\ (/\ pc = "done"
        /\ \E i \in 1..Len(tried) : tried[i] = "transport_error"
        /\ \A i \in 1..Len(tried) : tried[i] \in {"transport_error", "safety_block"})
          => response.cause \in {"model_error", "no_content"}


-----------------------------------------------------------------------------
\* the cleaned text is one JSON value that is not an array
DirectParseNotArray(text) ==
    LET direct == JsonLoads(CleanContent(text))
    IN  direct.ok /\ ~direct.is_list

\* C21: when the direct parse yields a value that is not an array, the parser
\* goes on with the bracket-span extraction (and the repair round-trip after
\* it) instead of ending the request
C21_NonArrayContinues ==
    [][(pc = "parse" /\ DirectParseNotArray(content))
          => pc' \in {"build", "repair"}]_vars


-----------------------------------------------------------------------------
\* the candidate makes some statement of the loop body raise
Raises(book_data) ==
    \/ book_data.kind \in {"nondict", "invalid", "null_title"}
    \/ validate_and_normalize_filters(book_data.filters).raised

Origin(b) == <<b.src, b.idx>>

Origins(bs) == [i \in 1..Len(bs) |-> Origin(bs[i])]

NotRaises(book_data) == ~Raises(book_data)

\* C22: the build loop drops exactly the candidates for which a statement of
\* its body raises and keeps the others in their order; the request fails
\* with the no-valid-recommendations error if and only if none is kept
C22_BadCandidatesDropped ==
    [][pc = "build" =>
          LET kept == SelectSeq(SliceTo(books_data, max_recs), NotRaises)
          IN  /\ (kept = <<>>) <=> (response'.cause = "no_valid_books")
              /\ kept # <<>> =>
                    /\ response'.status = 200
                    /\ Origins(response'.books) = Origins(kept)]_vars

\* the first of two candidates was dropped and the second one built
C22_Witness ==
    /\ Succeeded
    /\ Len(books_data) = 2
    /\ max_recs = 2
    /\ Raises(books_data[1])
    /\ Origins(response.books) = <<Origin(books_data[2])>>


-----------------------------------------------------------------------------
\* the first n elements of a sequence, none when n is not positive
FirstN(s, n) == [i \in 1..(IF n < Len(s) THEN (IF n < 0 THEN 0 ELSE n) ELSE Len(s)) |-> s[i]]

\* C23: on every parse path the books of a response are built from the first
\* requested-count candidates only, and a successful response never has more
\* books than the requested count
C23_TruncatedToRequested ==
    /\ [](Succeeded => Len(response.books) <= max_recs)
    /\ [][(pc = "build" /\ response'.status = 200) =>
             \A i \in 1..Len(response'.books) :
                \E j \in 1..Len(FirstN(books_data, max_recs)) :
                    Origin(response'.books[i]) = Origin(books_data[j])]_vars


-----------------------------------------------------------------------------
\* C24: two calls of generate_synthetic_books with the same query, count and
\* existing titles return the same candidates, equal in every field, whether
\* they run in one process or in two
C24_SyntheticDeterministic ==
    (call.fn = "generate_synthetic_books_twice" /\ returned.done) =>
        returned.value[1] = returned.value[2]


-----------------------------------------------------------------------------
\* no keyword of a rule contains a keyword of an earlier rule
SpecificBeforeGeneric(rules) ==
    \A i \in 1..Len(rules) : \A j \in 1..(i - 1) :
        \A w \in rules[i].kw : \A g \in rules[j].kw : ~Contains(w, g)

GenreNames(rules) == {rules[i].out : i \in 1..Len(rules)} \cup {"General"}

\* C25: genre detection returns one genre; a keyword is never shadowed by a
\* keyword of an earlier rule that it contains; 'science fiction' is never
\* classified 'Science (Non-Fiction)', 'true crime' never 'Crime Fiction',
\* 'historical fiction' and 'historical biography' never 'History' or
\* 'Biography/Memoir'; a query without any keyword is 'General'
C25_SpecificGenreFirst ==
    (call.fn = "detect_genre" /\ returned.done) =>
        LET q == Lower(call.query)
            has(w) == Contains(q, w)
        IN  /\ SpecificBeforeGeneric(GenreRules)
            /\ SpecificBeforeGeneric(GENRE_KEYWORDS)
            /\ returned.value[1] \in GenreNames(GenreRules)
            /\ returned.value[2] \in GenreNames(GENRE_KEYWORDS)
            /\ \A k \in 1..2 :
                /\ has(<<"s","c","i","e","n","c","e"," ","f","i","c","t","i","o","n">>)
                      => returned.value[k] # "Science (Non-Fiction)"
                /\ has(<<"t","r","u","e"," ","c","r","i","m","e">>) => returned.value[k] # "Crime Fiction"
                /\ (has(<<"h","i","s","t","o","r","i","c","a","l"," ","f","i","c","t","i","o","n">>) \/ has(<<"h","i","s","t","o","r","i","c","a","l"," ","b","i","o","g","r","a","p","h","y">>))
                      => returned.value[k] \notin {"History", "Biography/Memoir"}
            /\ (\A w \in KeywordsOf(GenreRules) : ~has(w))
                  => returned.value[1] = "General"
            /\ (\A w \in KeywordsOf(GENRE_KEYWORDS) : ~has(w))
                  => returned.value[2] = "General"

\* 'science true crime': both generic keywords occur, the specific genre wins
C25_Witness ==
    /\ call.fn = "detect_genre"
    /\ call.query = <<"s","c","i","e","n","c","e"," ","t","r","u","e"," ","c","r","i","m","e">>
    /\ returned.done
    /\ returned.value = <<"True Crime", "True Crime">>


-----------------------------------------------------------------------------
Range(s) == {s[i] : i \in 1..Len(s)}

\* the chain, from its first step to its last
ChainOrder ==
    <<"isbn_probe", "search", "intitle_inauthor", "title_author", "first_words",
      "title", "placeholder">>

Rank(step) == CHOOSE r \in 1..Len(ChainOrder) : ChainOrder[r] = step

\* what the p-th step of a finished chain call yielded
Yield(p) ==
    LET step == returned.value.steps[p]
    IN  CASE step = "isbn_probe" -> call.head
          [] step = "search"     -> call.search
          [] OTHER               -> call.lookups[p]

YieldedImage(p) ==
    returned.value.steps[p] # "placeholder" /\ Yield(p) \in {"found", "ok_200"}

\* C26: the steps of the cover chain are taken in its fixed order; a step is
\* taken only after every earlier step taken yielded no image; the ISBN probe
\* is taken exactly when an ISBN is given, before the search; the search
\* queries stop at the first that yields an image; the placeholder comes only
\* when no lookup made yielded an image
C26_CoverChainInOrder ==
    (call.fn \in {"chain_resolve_cover", "chain_get_book_cover_url"}
         /\ returned.done) =>
        LET steps == returned.value.steps
        IN  /\ \A p \in 1..Len(steps) : steps[p] \in Range(ChainOrder)
            /\ \A p, r \in 1..Len(steps) : p < r => Rank(steps[p]) < Rank(steps[r])
            /\ \A p, r \in 1..Len(steps) : p < r => ~YieldedImage(p)
            /\ call.fn = "chain_get_book_cover_url" =>
                  ("isbn_probe" \in Range(steps)
                      <=> (~call.isbn.absent /\ StrStrip(call.isbn.s) # <<>>))
            \* a lookup's own URL is returned only by the last step taken, as
            \* the image link that this step found (possibly an empty one)
            /\ returned.value.url.kind \in {"google_books", "openlibrary"}
                  => /\ steps # <<>>
                     /\ steps[Len(steps)] # "placeholder"
                     /\ Yield(Len(steps)) \in {"found", "ok_200", "empty_link"}
            /\ returned.value.url.kind \in Placeholders
                  => (steps # <<>> /\ steps[Len(steps)] = "placeholder")

\* two queries without a result, the third one finds the cover and the fourth
\* is not made
C26_Witness ==
    /\ call.fn = "chain_resolve_cover"
    /\ call.lookups = <<"no_result", "non_200", "found", "found">>
    /\ returned.done
    /\ returned.value.steps = <<"intitle_inauthor", "title_author", "first_words">>
    /\ returned.value.url.kind = "google_books"


-----------------------------------------------------------------------------
\* the dict without the entry of the key if that entry has reached the TTL
WithoutExpired(cache, key, clock) ==
    SelectSeq(cache, LAMBDA e : ~(e.key = key /\ clock - e.timestamp >= CACHE_TTL))

\* C27: a request that ends in an error leaves the cache as it was before its
\* lookup, apart from the expired entry of its own key that the lookup removes
C27_FailedRequestLeavesCache ==
    (requests >= 1 /\ last.status # 200) =>
        CACHE = WithoutExpired(last.cache_before, last.key, last.at)

\* the model call of a request raised: the request ended before the store
C27_Witness ==
    /\ requests >= 1
    /\ last.status = 500
    /\ last.upstream
    /\ ~last.store_called
    /\ CACHE = last.cache_before


-----------------------------------------------------------------------------
EntriesOf(cache, key) == {i \in 1..Len(cache) : cache[i].key = key}

\* C28: requests are handled one whole handler at a time, in any order of
\* arrival; the cache never holds more than 100 entries or two entries of one
\* key; the lookup deletes only a key that is present; and after two requests
\* with the same fingerprint that both reached the store, the cache holds
\* exactly one entry for it, whose books and timestamp are those of one of the
\* two requests
C28_CacheOperationsAtomic ==
    /\ Len(CACHE) <= CacheCapacity
    /\ \A i, j \in 1..Len(CACHE) : CACHE[i].key = CACHE[j].key => i = j
    /\ (/\ requests >= 2
        /\ prev.key = last.key
        /\ prev.store_called
        /\ last.store_called) =>
          /\ Cardinality(EntriesOf(CACHE, last.key)) = 1
          /\ \E r \in {prev, last} :
                LET e == CACHE[CHOOSE i \in EntriesOf(CACHE, last.key) : TRUE]
                IN  e.books = r.generated /\ e.timestamp = r.at


-----------------------------------------------------------------------------
\* the entry of the request's key that the request's lookup found
FoundEntry(r) ==
    LET at == EntriesOf(r.cache_before, r.key)
    IN  IF at = {} THEN [found |-> FALSE, books |-> <<>>, timestamp |-> 0]
        ELSE LET e == r.cache_before[CHOOSE i \in at : TRUE]
             IN  [found |-> TRUE, books |-> e.books, timestamp |-> e.timestamp]

-----------------------------------------------------------------------------
(* Properties of save_book (SpecSave) *)

SameSavedBook(a, b) ==
    a.user_id = b.user_id /\ a.title = b.title /\ a.author = b.author

\* C29: no user's collection ever holds two documents with the same title and
\* author, however the user's save_book requests interleave; a request that
\* is answered 409 inserts nothing
C29_NoDuplicateSavedBook ==
    /\ [](\A i, j \in 1..Len(saved_books) :
             SameSavedBook(saved_books[i], saved_books[j]) => i = j)
    /\ [][\A r \in DOMAIN saves :
             (r \in DOMAIN saves' /\ saves[r].status # 409 /\ saves'[r].status = 409)
                 => saved_books' = saved_books]_vars

====
